---- MODULE Spec2Model ----
(***************************************************************************)
(* Session lifecycle of the browser service: SessionManager                *)
(* (services/browser-service/session-manager.js), Session (session.js)     *)
(* and the calls BrowserService makes into them.                           *)
(*                                                                         *)
(* Node.js runs one thread: the code between two awaits is one step.  A    *)
(* call of an async function runs the callee up to its first await inside  *)
(* the caller's step; a callee that finishes hands its result to the       *)
(* awaiting caller, which resumes in a later step.  Each in-flight call is *)
(* a stack of frames (innermost last); `calls` is the bag of these stacks. *)
(***************************************************************************)
EXTENDS Integers, Sequences, FiniteSets, Bags, TLC

VARIABLES
  sessions,     \* keys of SessionManager.sessions (the pool)
  obj,          \* the Session objects constructed so far; obj[i].id = i
  calls,        \* bag of in-flight calls, each a stack of frames
  pendingDisc,  \* ids whose 'disconnected' observer has been notified but not yet run
  last,         \* what the latest step did: [fn, sid, out, ids, top]
  cleanupInterval,  \* whether the periodic sweep timer of the manager is set
  run,          \* the executeActions call under study (BrowserService)
  page,         \* the page the Page Interactor works on: [closed, interception, listeners, url]
  pcalls,       \* sequence of the Page Interactor calls in flight on `page`
  plast,        \* the Page Interactor call that returned or raised last
  login,        \* the LoginHandler.login call under study
  launch,       \* the BrowserLauncher.launchOrConnect call under study
  extract       \* the extractStructuredData evaluation under study

\* The state of the session manager, and all of the state
mvars == <<sessions, obj, calls, pendingDisc, last, cleanupInterval>>
\* The state of the Page Interactor, the login handler and the launcher
ovars == <<page, pcalls, plast, login, launch, extract>>
vars == <<sessions, obj, calls, pendingDisc, last, cleanupInterval, run,
          page, pcalls, plast, login, launch, extract>>

\* config.maxSessions = parseInt(MAX_BROWSER_INSTANCES || '5'): the configured size
\* of the pool, kept small here.
maxSessions == 1
\* config.connectionRetries
connectionRetries == 3
\* Session objects ever constructed (ids are never reused).
MaxIds == 2
\* Calls in flight at once.
MaxCalls == 3

Ids == 1..MaxIds

-----------------------------------------------------------------------------
(* Session *)

\* new Session(browser, page, client); `observed` records whether the
\* 'disconnected' listener is registered on the session's current browser,
\* `expired` whether now - lastUsed > defaultTimeoutMs, `timerOld` whether the
\* pending inactivity timer was set before lastUsed was last written (so that
\* it may run out while the session is not yet expired), `timers` the number of
\* setTimeout handles armed for the session that have neither fired nor been
\* cleared (timeoutId holds the handle of the latest one).
NewSession ==
  [browser |-> "connected", page |-> "open", client |-> "attached",
   timeoutId |-> "null", reconnectAttempts |-> 0, isClosing |-> FALSE,
   observed |-> FALSE, expired |-> FALSE, timerOld |-> FALSE, timers |-> 0]

\* if (session.timeoutId) clearTimeout(session.timeoutId): cancels the handle
\* held in timeoutId; clearing a handle that has fired does nothing
clearTimeout(s) ==
  [s EXCEPT !.timers = IF s.timeoutId = "pending" THEN @ - 1 ELSE @]

\* session.browser && typeof isConnected === 'function' && session.browser.isConnected()
isConnected(s) == s.browser = "connected"

\* Session.updateLastUsed
updateLastUsed(s) ==
  [s EXCEPT !.expired = FALSE, !.timerOld = (s.timeoutId = "pending")]

\* Session.isStale(timeoutMs)
isStale(s) ==
  IF s.isClosing THEN FALSE
  ELSE IF ~isConnected(s) THEN TRUE
  ELSE s.expired

\* Session.closeResources(graceful), run from `from` up to its next await (or its
\* end).  Result: the session, the pc reached ("detach", "bclose" or "done"),
\* and whether a browser with a registered listener was killed.
closeResourcesRun(s, graceful, from) ==
  LET s1 == IF from = "start"
            THEN [clearTimeout(s) EXCEPT !.isClosing = TRUE,
                                         !.timeoutId = "null",
                                         !.timerOld = FALSE]
            ELSE s
      atDetach == from = "start" /\ s1.client = "attached"
      s2 == [s1 EXCEPT !.client = "null"]
      atClose == from # "bclose" /\ isConnected(s2) /\ graceful
      killed == from # "bclose" /\ isConnected(s2) /\ ~graceful
      s3 == [s2 EXCEPT !.browser = "null", !.page = "null", !.observed = FALSE]
  IN  IF atDetach THEN [s |-> s1, pc |-> "detach", notify |-> FALSE]
      ELSE IF atClose THEN [s |-> s2, pc |-> "bclose", notify |-> FALSE]
      ELSE [s |-> s3, pc |-> "done",
            notify |-> (s2.observed /\ (killed \/ from = "bclose"))]

-----------------------------------------------------------------------------
(* Frames and effects *)

Frame(fn, pc, sid) ==
  [fn |-> fn, pc |-> pc, sid |-> sid, ret |-> "none",
   graceful |-> FALSE, todo |-> {}, raised |-> FALSE, browser |-> "none"]

\* The effect of running a function up to its next await: the new heap, pool
\* and notifications, the frames it leaves suspended (outermost first), or,
\* when it ran to completion, its outcome.
Effect(o, S, P, frames, out) ==
  [obj |-> o, sessions |-> S, pend |-> P, frames |-> frames, out |-> out]

Top(st) == st[Len(st)]
Below(st) == SubSeq(st, 1, Len(st) - 1)

\* A caller suspended on `await callee(...)`, given the callee's effect.
Awaiting(caller, e) ==
  IF e.frames = <<>>
  THEN Effect(e.obj, e.sessions, e.pend, <<[caller EXCEPT !.ret = e.out]>>, "none")
  ELSE Effect(e.obj, e.sessions, e.pend, <<caller>> \o e.frames, "none")

\* What a step did: the function whose code ran, the session id, and the
\* outcome: "call" (a new call suspended), "step" (a call resumed and suspended
\* again) or the result the function returned or raised.  `top` marks the
\* invocation of a call by a caller outside the manager.
Event(fn, sid, out) ==
  [fn |-> fn, sid |-> sid, out |-> out, ids |-> {}, top |-> FALSE]

CallEvent(fn, sid, out) ==
  [Event(fn, sid, IF out = "none" THEN "call" ELSE out) EXCEPT !.top = TRUE]

InFlight == BagCardinality(calls)

\* The signal handler of the service (index.js) ends the process as soon as
\* shutdown has returned: nothing runs after that.
Exited == last.fn = "shutdown" /\ last.out = "shutdownDone"

\* Replace the stack `old` (or start a new call when old = <<>>) by the frames
\* below its top frame followed by what the effect leaves.
Commit(old, e, ev) ==
  LET rest == IF old = <<>> THEN <<>> ELSE Below(old)
      base == IF old = <<>> THEN calls ELSE calls (-) SetToBag({old})
      new  == IF e.frames # <<>> THEN rest \o e.frames
              ELSE IF rest = <<>> THEN <<>>
              ELSE [rest EXCEPT ![Len(rest)].ret = e.out]
  IN  /\ ~Exited
      /\ obj' = e.obj
      /\ sessions' = e.sessions
      /\ pendingDisc' = e.pend
      /\ calls' = IF new = <<>> THEN base ELSE base (+) SetToBag({new})
      /\ last' = ev
      /\ UNCHANGED <<cleanupInterval, run, ovars>>

-----------------------------------------------------------------------------
(* SessionManager.closeSession and Session.closeResources *)

\* The guard without the test of the closing flag
closeGuardAbsentOnly(o, S, i) == i \in S

\* closeSession goes on unless the session is absent or already closing
closeGuard(o, S, i) == i \in S /\ ~o[i].isClosing

closeResourcesStart(o, S, P, i, graceful, s0) ==
  LET r == closeResourcesRun(s0, graceful, "start")
      o1 == [o EXCEPT ![i] = r.s]
      P1 == IF r.notify THEN P \cup {i} ELSE P
  IN  IF r.pc = "done" THEN Effect(o1, S, P1, <<>>, "ok")
      ELSE Effect(o1, S, P1,
                  <<[Frame("closeResources", r.pc, i) EXCEPT !.graceful = graceful]>>,
                  "none")

\* closeSession with the closing flag still unset when the teardown suspends
closeSessionStartUnmarked(o, S, P, i, graceful) ==
  IF ~closeGuard(o, S, i) THEN Effect(o, S, P, <<>>, "noop")
  ELSE LET e == closeResourcesStart(o, S, P, i, graceful, o[i])
       IN  Awaiting([Frame("closeSession", "closeResources", i)
                       EXCEPT !.graceful = graceful],
                    [e EXCEPT !.obj = [e.obj EXCEPT ![i].isClosing = FALSE]])

closeSessionStart(o, S, P, i, graceful) ==
  IF ~closeGuard(o, S, i) THEN Effect(o, S, P, <<>>, "noop")
  ELSE Awaiting([Frame("closeSession", "closeResources", i)
                   EXCEPT !.graceful = graceful],
                closeResourcesStart(o, S, P, i, graceful,
                                    [o[i] EXCEPT !.isClosing = TRUE]))

\* closeResources letting the error of a release escape
closeResourcesResumeRethrow(f, threw) ==
  LET r == closeResourcesRun(obj[f.sid], f.graceful,
                             IF f.pc = "detach" THEN "detach" ELSE "bclose")
      o1 == [obj EXCEPT ![f.sid] = r.s]
      P1 == IF r.notify THEN pendingDisc \cup {f.sid} ELSE pendingDisc
  IN  IF threw THEN Effect(obj, sessions, pendingDisc, <<>>, "warned")
      ELSE IF r.pc = "done" THEN Effect(o1, sessions, P1, <<>>, "ok")
      ELSE Effect(o1, sessions, P1, <<[f EXCEPT !.pc = r.pc]>>, "none")

\* closeResources resumes after client.detach() or browser.close() settled;
\* `threw` is whether the awaited release raised (caught and logged).
closeResourcesResume(f, threw) ==
  LET r == closeResourcesRun(obj[f.sid], f.graceful,
                             IF f.pc = "detach" THEN "detach" ELSE "bclose")
      o1 == [obj EXCEPT ![f.sid] = r.s]
      P1 == IF r.notify THEN pendingDisc \cup {f.sid} ELSE pendingDisc
      warned == f.raised \/ threw
  IN  IF r.pc = "done"
      THEN Effect(o1, sessions, P1, <<>>, IF warned THEN "warned" ELSE "ok")
      ELSE Effect(o1, sessions, P1, <<[f EXCEPT !.pc = r.pc, !.raised = warned]>>, "none")

\* closeSession resumes after closeResources: the finally block
closeSessionResume(f) ==
  Effect(obj, sessions \ {f.sid}, pendingDisc, <<>>,
         IF f.ret = "warned" THEN "closedWarned" ELSE "closed")

-----------------------------------------------------------------------------
(* SessionManager.createSession *)

\* The capacity test off by one
poolFullStrict(S) == Cardinality(S) > maxSessions

\* this.sessions.size >= this.maxSessions
poolFull(S) == Cardinality(S) >= maxSessions

createSessionStart(o, S, P) ==
  IF poolFull(S) THEN Effect(o, S, P, <<>>, "capacity")
  ELSE Effect(o, S, P, <<Frame("createSession", "launch", 0)>>, "none")

\* SessionManager.resetSessionTimeout
resetSessionTimeout(o, S, i) ==
  IF i \in S /\ ~o[i].isClosing
  THEN [o EXCEPT ![i] = [clearTimeout(@) EXCEPT !.timeoutId = "pending",
                                                !.timerOld = FALSE,
                                                !.timers = @ + 1]]
  ELSE o

\* The catch block raising the setup error without closing the browser
createSessionCleanupLeaky(f) ==
  Effect(obj, sessions, pendingDisc, <<>>, "setupError")

\* The catch block of the session setup: newPage or createCDPSession raised, so
\* there is no client; the browser is closed when it is still connected.
createSessionCleanup(f) ==
  IF f.browser = "connected"
  THEN Effect(obj, sessions, pendingDisc,
              <<[f EXCEPT !.pc = "cleanup", !.browser = "closing"]>>, "none")
  ELSE Effect(obj, sessions, pendingDisc, <<>>, "setupError")

\* createSession resumes: `res` is whether the awaited launchOrConnect, or the
\* awaited newPage / createCDPSession, raised.  The frame's `browser` is the
\* browser the call obtained, until the Session object holds it.
createSessionResume(f, res) ==
  CASE f.pc = "launch" ->
         IF res = "ok"
         THEN Effect(obj, sessions, pendingDisc,
                     <<[f EXCEPT !.pc = "setup", !.browser = "connected"]>>, "none")
         ELSE Effect(obj, sessions, pendingDisc, <<>>, "launchError")
    [] f.pc = "setup" ->
         IF res = "ok"
         THEN Effect(Append(obj, [NewSession EXCEPT
                                    !.browser = f.browser,
                                    !.client = IF f.browser = "connected"
                                               THEN "attached" ELSE "detached"]),
                     sessions, pendingDisc,
                     <<[f EXCEPT !.pc = "stealth", !.sid = Len(obj) + 1,
                                 !.browser = "none"]>>, "none")
         ELSE createSessionCleanup(f)
    [] f.pc = "cleanup" ->
         Effect(obj, sessions, pendingDisc, <<>>, "setupError")
    [] f.pc = "stealth" ->
         LET S1 == sessions \cup {f.sid}
             o1 == [obj EXCEPT ![f.sid].observed = TRUE]
         IN  Effect(resetSessionTimeout(o1, S1, f.sid), S1, pendingDisc, <<>>, "created")

-----------------------------------------------------------------------------
(* SessionManager.reconnectSession *)

\* BrowserLauncher (browser-launcher.js) defines launchOrConnect only: the call
\* this.browserLauncher.launch(...) raises a TypeError inside the try block.
launcherHasLaunch == FALSE

\* The guard without the test of the closing flag
reconnectGuardPooledOnly(o, S, i) == i \in S

\* if (!session || session.isClosing) throw
reconnectGuard(o, S, i) == i \in S /\ ~o[i].isClosing

\* reconnectSession counting an attempt twice
reconnectSessionStartTwice(o, S, P, i) ==
  IF ~reconnectGuard(o, S, i) THEN Effect(o, S, P, <<>>, "refused")
  ELSE IF o[i].reconnectAttempts >= connectionRetries
  THEN Awaiting(Frame("reconnectSession", "ceilClose", i),
                closeSessionStart(o, S, P, i, FALSE))
  ELSE LET o1 == [o EXCEPT ![i].reconnectAttempts = @ + 2]
       IN  Awaiting(Frame("reconnectSession", "closeResources", i),
                    closeResourcesStart(o1, S, P, i, FALSE, o1[i]))

reconnectSessionStart(o, S, P, i) ==
  IF ~reconnectGuard(o, S, i) THEN Effect(o, S, P, <<>>, "refused")
  ELSE IF o[i].reconnectAttempts >= connectionRetries
  THEN Awaiting(Frame("reconnectSession", "ceilClose", i),
                closeSessionStart(o, S, P, i, FALSE))
  ELSE LET o1 == [o EXCEPT ![i].reconnectAttempts = @ + 1]
       IN  Awaiting(Frame("reconnectSession", "closeResources", i),
                    closeResourcesStart(o1, S, P, i, FALSE, o1[i]))

\* The catch block once the partly created resources are released: retry
\* after the delay, or close for good.
reconnectRetryOrGiveUp(f, o, S, P) ==
  IF o[f.sid].reconnectAttempts < connectionRetries
  THEN Effect(o, S, P, <<[f EXCEPT !.pc = "wait", !.ret = "none"]>>, "none")
  ELSE Awaiting([f EXCEPT !.pc = "finalClose", !.ret = "none"],
                closeSessionStart(o, S, P, f.sid, FALSE))

\* The new handles swapped into the session object in place
reconnectSwap(s) ==
  [updateLastUsed(s) EXCEPT !.browser = "connected", !.page = "open",
                            !.client = "attached", !.observed = FALSE,
                            !.reconnectAttempts = 0, !.isClosing = FALSE]

reconnectSessionResume(f, res) ==
  CASE f.pc = "ceilClose" ->
         Effect(obj, sessions, pendingDisc, <<>>, "maxAttempts")
    [] f.pc = "closeResources" ->
         IF launcherHasLaunch
         THEN Effect(obj, sessions, pendingDisc,
                     <<[f EXCEPT !.pc = "launch", !.ret = "none"]>>, "none")
         ELSE reconnectRetryOrGiveUp(f, obj, sessions, pendingDisc)
    [] f.pc = "launch" ->
         IF res = "ok"
         THEN Effect(obj, sessions, pendingDisc, <<[f EXCEPT !.pc = "setup"]>>, "none")
         ELSE reconnectRetryOrGiveUp(f, obj, sessions, pendingDisc)
    [] f.pc = "setup" ->
         IF res = "ok"
         THEN Effect([obj EXCEPT ![f.sid] = reconnectSwap(@)], sessions, pendingDisc,
                     <<[f EXCEPT !.pc = "stealth"]>>, "none")
         ELSE Effect(obj, sessions, pendingDisc, <<[f EXCEPT !.pc = "cleanup"]>>, "none")
    [] f.pc = "cleanup" ->
         reconnectRetryOrGiveUp(f, obj, sessions, pendingDisc)
    [] f.pc = "stealth" ->
         LET o1 == [obj EXCEPT ![f.sid].observed = isConnected(obj[f.sid])]
         IN  Effect(resetSessionTimeout(o1, sessions, f.sid), sessions, pendingDisc,
                    <<>>, "ok")
    [] f.pc = "wait" ->
         Awaiting([f EXCEPT !.pc = "retry"],
                  reconnectSessionStart(obj, sessions, pendingDisc, f.sid))
    [] f.pc = "retry" ->
         Effect(obj, sessions, pendingDisc, <<>>,
                IF f.ret = "ok" THEN "ok" ELSE "retryFailed")
    [] f.pc = "finalClose" ->
         Effect(obj, sessions, pendingDisc, <<>>, "failed")

-----------------------------------------------------------------------------
(* SessionManager.getSession *)

\* getSession without the test of the closing flag
getSessionStartAnyFlag(o, S, P, i) ==
  IF i \notin S THEN Effect(o, S, P, <<>>, "notFound")
  ELSE IF isConnected(o[i])
  THEN LET o1 == [o EXCEPT ![i] = updateLastUsed(@)]
       IN  Effect(resetSessionTimeout(o1, S, i), S, P, <<>>, "ok")
  ELSE Awaiting(Frame("getSession", "reconnect", i),
                reconnectSessionStart(o, S, P, i))

getSessionStart(o, S, P, i) ==
  IF i \notin S \/ o[i].isClosing THEN Effect(o, S, P, <<>>, "notFound")
  ELSE IF isConnected(o[i])
  THEN LET o1 == [o EXCEPT ![i] = updateLastUsed(@)]
       IN  Effect(resetSessionTimeout(o1, S, i), S, P, <<>>, "ok")
  ELSE Awaiting(Frame("getSession", "reconnect", i),
                reconnectSessionStart(o, S, P, i))

getSessionResume(f) ==
  CASE f.pc = "reconnect" ->
         IF f.ret = "ok" /\ f.sid \in sessions /\ isConnected(obj[f.sid])
         THEN getSessionStart(obj, sessions, pendingDisc, f.sid)
         ELSE Awaiting([f EXCEPT !.pc = "close", !.ret = "none"],
                       closeSessionStart(obj, sessions, pendingDisc, f.sid, FALSE))
    [] f.pc = "close" ->
         Effect(obj, sessions, pendingDisc, <<>>, "disconnected")

-----------------------------------------------------------------------------
(* SessionManager.cleanupStaleSessions *)

staleSessionIds(o, S) ==
  {i \in S : ~o[i].isClosing /\ isStale(o[i])
             /\ (~isConnected(o[i]) \/ o[i].expired)}

\* The loop over staleSessionIds; `i` is the next id of `todo` in Map order.
cleanupClose(o, S, P, todo, i) ==
  Awaiting([Frame("cleanupStaleSessions", "close", 0) EXCEPT !.todo = todo \ {i}],
           closeSessionStart(o, S, P, i, FALSE))

-----------------------------------------------------------------------------
(* Steps *)

TopIs(st, fn) == Top(st).fn = fn

\* Session objects that createSession calls in flight may still construct.
Unbuilt ==
  LET S == {st \in BagToSet(calls) :
              Top(st).fn = "createSession" /\ Top(st).pc \in {"launch", "setup"}}
  IN  BagCardinality([st \in S |-> calls[st]])

CallCreateSession ==
  /\ InFlight < MaxCalls
  /\ Len(obj) + Unbuilt < MaxIds
  /\ LET e == createSessionStart(obj, sessions, pendingDisc)
     IN Commit(<<>>, e, CallEvent("createSession", 0, e.out))

StepCreateSession ==
  \E st \in BagToSet(calls) : \E res \in {"ok", "throws"} :
    /\ TopIs(st, "createSession")
    /\ LET e == createSessionResume(Top(st), res)
       IN Commit(st, e, Event("createSession",
                              IF e.out = "created" THEN Top(st).sid ELSE 0,
                              IF e.out = "none" THEN "step" ELSE e.out))

CallCloseSession ==
  \E i \in Ids : \E graceful \in BOOLEAN :
    /\ InFlight < MaxCalls
    /\ i <= Len(obj)
    /\ LET e == closeSessionStart(obj, sessions, pendingDisc, i, graceful)
       IN Commit(<<>>, e, CallEvent("closeSession", i, e.out))

StepCloseResources ==
  \E st \in BagToSet(calls) : \E threw \in BOOLEAN :
    /\ TopIs(st, "closeResources")
    /\ LET e == closeResourcesResume(Top(st), threw)
       IN Commit(st, e, Event("closeResources", Top(st).sid,
                              IF e.out = "none" THEN "step" ELSE e.out))

StepCloseSession ==
  \E st \in BagToSet(calls) :
    /\ TopIs(st, "closeSession")
    /\ Top(st).ret # "none"
    /\ LET e == closeSessionResume(Top(st))
       IN Commit(st, e, Event("closeSession", Top(st).sid, e.out))

CallGetSession ==
  \E i \in Ids :
    /\ InFlight < MaxCalls
    /\ i <= Len(obj)
    /\ LET e == getSessionStart(obj, sessions, pendingDisc, i)
       IN Commit(<<>>, e, CallEvent("getSession", i, e.out))

StepGetSession ==
  \E st \in BagToSet(calls) :
    /\ TopIs(st, "getSession")
    /\ LET e == getSessionResume(Top(st))
       IN Commit(st, e, Event("getSession", Top(st).sid,
                              IF e.out = "none" THEN "step" ELSE e.out))

\* BrowserService.executeActions: the connection check before an action, on the
\* session object it obtained at its start
CallReconnectSession ==
  \E i \in Ids :
    /\ InFlight < MaxCalls
    /\ i <= Len(obj)
    /\ ~isConnected(obj[i])
    /\ LET e == reconnectSessionStart(obj, sessions, pendingDisc, i)
       IN Commit(<<>>, e, CallEvent("reconnectSession", i, e.out))

StepReconnectSession ==
  \E st \in BagToSet(calls) : \E res \in {"ok", "throws"} :
    /\ TopIs(st, "reconnectSession")
    /\ LET e == reconnectSessionResume(Top(st), res)
       IN Commit(st, e, Event("reconnectSession", Top(st).sid,
                              IF e.out = "none" THEN "step" ELSE e.out))

\* SessionManager.handleDisconnection, run by the 'disconnected' listener
HandleDisconnection ==
  \E i \in pendingDisc :
    IF closeGuard(obj, sessions, i)
    THEN /\ InFlight < MaxCalls
         /\ Commit(<<>>, closeSessionStart(obj, sessions, pendingDisc \ {i}, i, FALSE),
                   CallEvent("handleDisconnection", i, "close"))
    ELSE Commit(<<>>, Effect(obj, sessions, pendingDisc \ {i}, <<>>, "noop"),
                CallEvent("handleDisconnection", i, "noop"))

\* The inactivity timer set by resetSessionTimeout fires, defaultTimeoutMs
\* after it was set: not before lastUsed + defaultTimeoutMs unless lastUsed was
\* written after the timer was set
SessionTimeout ==
  \E i \in Ids :
    /\ InFlight < MaxCalls
    /\ i <= Len(obj)
    /\ obj[i].timeoutId = "pending"
    /\ obj[i].expired \/ obj[i].timerOld
    /\ Commit(<<>>, closeSessionStart([obj EXCEPT ![i].timeoutId = "fired",
                                                  ![i].timerOld = FALSE,
                                                  ![i].timers = @ - 1],
                                      sessions, pendingDisc, i, TRUE),
              CallEvent("sessionTimeout", i, "close"))

CallCleanupStaleSessions ==
  /\ cleanupInterval
  /\ InFlight < MaxCalls
  /\ LET stale == staleSessionIds(obj, sessions)
     IN IF stale = {}
        THEN Commit(<<>>, Effect(obj, sessions, pendingDisc, <<>>, "nothingStale"),
                    [CallEvent("cleanupStaleSessions", 0, "nothingStale") EXCEPT !.ids = stale])
        ELSE \E i \in stale :
               Commit(<<>>, cleanupClose(obj, sessions, pendingDisc, stale, i),
                      [CallEvent("cleanupStaleSessions", 0, "none") EXCEPT !.ids = stale])

StepCleanupStaleSessions ==
  \E st \in BagToSet(calls) :
    /\ TopIs(st, "cleanupStaleSessions")
    /\ IF Top(st).todo = {}
       THEN Commit(st, Effect(obj, sessions, pendingDisc, <<>>, "done"),
                   Event("cleanupStaleSessions", 0, "done"))
       ELSE \E i \in Top(st).todo :
              Commit(st, cleanupClose(obj, sessions, pendingDisc, Top(st).todo, i),
                     Event("cleanupStaleSessions", i, "step"))

\* BrowserService.executeActions at the start of an action, on the session
\* object it obtained from getSession when it began: the connection check
\* passed, then session.updateLastUsed() and resetSessionTimeout(sessionId)
ExecuteActionsTouch ==
  \E i \in Ids :
    /\ ~Exited
    /\ i <= Len(obj)
    /\ ~\E st \in BagToSet(calls) : TopIs(st, "createSession") /\ Top(st).sid = i
    /\ isConnected(obj[i])
    /\ obj' = resetSessionTimeout([obj EXCEPT ![i] = updateLastUsed(@)], sessions, i)
    /\ last' = Event("executeActions", i, "touch")
    /\ UNCHANGED <<sessions, calls, pendingDisc, cleanupInterval, run, ovars>>

-----------------------------------------------------------------------------
(* SessionManager.shutdown *)

\* this.sessions.clear() leaving the pool as it is
shutdownClearNone(S) == S

\* this.sessions.clear()
shutdownClear(S) == {}

\* The sessions of `ids` on which closeSession(id, true) goes past its guard
shutdownStarted(ids) == {i \in ids : closeGuard(obj, sessions, i)}

\* shutdown up to `await Promise.allSettled(closePromises)`: the interval is
\* cleared and closeSession(id, true) is called for every key of the pool, each
\* call running up to its first await; with an empty pool shutdown runs on to
\* its end.
CallShutdown ==
  /\ ~Exited
  /\ InFlight < MaxCalls
  /\ cleanupInterval' = FALSE
  /\ UNCHANGED <<run, ovars>>
  /\ IF sessions = {}
     THEN /\ sessions' = shutdownClear(sessions)
          /\ UNCHANGED <<obj, calls, pendingDisc>>
          /\ last' = CallEvent("shutdown", 0, "shutdownDone")
     ELSE LET started == shutdownStarted(sessions)
              e(i) == closeSessionStart(obj, sessions, pendingDisc, i, TRUE)
          IN  /\ obj' = [k \in DOMAIN obj |->
                           IF k \in started THEN e(k).obj[k] ELSE obj[k]]
              /\ pendingDisc' = pendingDisc \cup UNION {e(i).pend : i \in started}
              /\ calls' = calls (+) SetToBag({e(i).frames : i \in started})
                                (+) SetToBag({<<[Frame("shutdown", "allSettled", 0)
                                                  EXCEPT !.todo = started]>>})
              /\ sessions' = sessions
              /\ last' = [CallEvent("shutdown", 0, "call") EXCEPT !.ids = sessions]

\* shutdown resumes once every closeSession it started has settled
StepShutdown ==
  \E st \in BagToSet(calls) :
    /\ ~Exited
    /\ TopIs(st, "shutdown")
    /\ \A i \in Top(st).todo :
         ~\E c \in BagToSet(calls) : c[1].fn = "closeSession" /\ c[1].sid = i
    /\ sessions' = shutdownClear(sessions)
    /\ calls' = calls (-) SetToBag({st})
    /\ last' = [Event("shutdown", 0, "shutdownDone") EXCEPT !.ids = Top(st).todo]
    /\ UNCHANGED <<obj, pendingDisc, cleanupInterval, run, ovars>>

\* The browser of a session dies or its connection drops
Disconnect ==
  \E i \in Ids :
    /\ ~Exited
    /\ i <= Len(obj)
    /\ isConnected(obj[i])
    /\ obj' = [obj EXCEPT ![i].browser = "disconnected",
                          ![i].client = IF @ = "attached" THEN "detached" ELSE @]
    /\ pendingDisc' = IF obj[i].observed THEN pendingDisc \cup {i} ELSE pendingDisc
    /\ last' = Event("disconnect", i, "env")
    /\ UNCHANGED <<sessions, calls, cleanupInterval, run, ovars>>

\* The browser a createSession call has obtained dies before the Session
\* object is constructed
DisconnectLaunched ==
  \E st \in BagToSet(calls) :
    /\ ~Exited
    /\ TopIs(st, "createSession")
    /\ Top(st).browser = "connected"
    /\ calls' = (calls (-) SetToBag({st}))
                  (+) SetToBag({<<[Top(st) EXCEPT !.browser = "disconnected"]>>})
    /\ last' = Event("disconnect", 0, "env")
    /\ UNCHANGED <<sessions, obj, pendingDisc, cleanupInterval, run, ovars>>

\* The idle time of a pooled session passes defaultTimeoutMs
TimePasses ==
  \E i \in sessions :
    /\ ~Exited
    /\ ~obj[i].expired
    /\ obj' = [obj EXCEPT ![i].expired = TRUE]
    /\ last' = Event("timePasses", i, "env")
    /\ UNCHANGED <<sessions, calls, pendingDisc, cleanupInterval, run, ovars>>

\* No executeActions call
NoRun == [pc |-> "idle"]

\* No page under study, no Page Interactor call, no login, no launch and no
\* extraction
NoPage == [closed |-> TRUE, interception |-> FALSE, listeners |-> <<>>,
           url |-> "about:blank"]
NoPlast == [fn |-> "none"]
NoLogin == [pc |-> "idle"]
NoLaunch == [pc |-> "idle"]
NoExtract == [pc |-> "idle"]

\* The session manager before its first call
ManagerInit ==
  /\ sessions = {}
  /\ obj = <<>>
  /\ calls = EmptyBag
  /\ pendingDisc = {}
  /\ last = Event("init", 0, "none")
  /\ cleanupInterval = TRUE

Init ==
  /\ ManagerInit
  /\ run = NoRun
  /\ page = NoPage /\ pcalls = <<>> /\ plast = NoPlast
  /\ login = NoLogin /\ launch = NoLaunch /\ extract = NoExtract

Next ==
  \/ CallCreateSession
  \/ StepCreateSession
  \/ CallCloseSession
  \/ StepCloseResources
  \/ StepCloseSession
  \/ CallGetSession
  \/ StepGetSession
  \/ CallReconnectSession
  \/ StepReconnectSession
  \/ HandleDisconnection
  \/ SessionTimeout
  \/ CallCleanupStaleSessions
  \/ StepCleanupStaleSessions
  \/ ExecuteActionsTouch
  \/ CallShutdown
  \/ StepShutdown
  \/ Disconnect
  \/ DisconnectLaunched
  \/ TimePasses

Spec == Init /\ [][Next]_vars

-----------------------------------------------------------------------------
(* BrowserService._resolveSelector *)

\* JavaScript values of an action's fields
Undefined == [t |-> "undefined", v |-> ""]
Null == [t |-> "null", v |-> ""]
Str(x) == [t |-> "string", v |-> x]
NotAString == [t |-> "object", v |-> ""]

\* ToBoolean(x)
Truthy(x) == x.t = "object" \/ (x.t = "string" /\ x.v # "")
\* typeof x === 'string'
IsString(x) == x.t = "string"

\* The selector table handed to the service (websiteSelectors.json): per
\* domain, abstract name -> locator.  A hostname is its sequence of labels.
websiteSelectors ==
  <<"shop", "com">> :> ("searchInput" :> "#q" @@ "blank" :> "")

\* Page URLs: `valid` is whether new URL(pageUrl) parses
PageUrls ==
  {[valid |-> TRUE, hostname |-> h] :
     h \in {<<"shop", "com">>, <<"www", "shop", "com">>,
            <<"www", "www", "shop", "com">>, <<"blog", "org">>}}
  \cup {[valid |-> FALSE, hostname |-> <<>>]}

\* url.hostname.replace(/^www\./, '')
stripWww(h) == IF Len(h) > 1 /\ h[1] = "www" THEN Tail(h) ELSE h

\* _resolveSelector trying the explicit locator before the table
resolveSelectorGenericFirst(pageUrl, action) ==
  LET selectorName == action.predefinedName
      domain == stripWww(pageUrl.hostname)
      found == /\ Truthy(selectorName) /\ IsString(selectorName)
               /\ pageUrl.valid
               /\ domain \in DOMAIN websiteSelectors
               /\ selectorName.v \in DOMAIN websiteSelectors[domain]
               /\ websiteSelectors[domain][selectorName.v] # ""
  IN  IF Truthy(action.selector) /\ IsString(action.selector) THEN action.selector
      ELSE IF found THEN Str(websiteSelectors[domain][selectorName.v])
      ELSE Null

_resolveSelector(pageUrl, action) ==
  LET selectorName == action.predefinedName
      genericSelector == action.selector
      domain == stripWww(pageUrl.hostname)
      found == /\ Truthy(selectorName) /\ IsString(selectorName)
               /\ pageUrl.valid
               /\ domain \in DOMAIN websiteSelectors
               /\ selectorName.v \in DOMAIN websiteSelectors[domain]
               /\ websiteSelectors[domain][selectorName.v] # ""
  IN  IF found THEN Str(websiteSelectors[domain][selectorName.v])
      ELSE IF Truthy(genericSelector) /\ IsString(genericSelector)
      THEN genericSelector
      ELSE Null

-----------------------------------------------------------------------------
(* BrowserService.executeActions *)

\* actions.length of the call under study
MaxActions == 3

ActionTypes ==
  {"click", "type", "waitForSelector", "evaluate", "scroll", "navigate",
   "solveCaptcha", "unsupported"}

\* The kinds for which executeActions resolves a selector
SelectorTypes == {"click", "type", "waitForSelector", "evaluate", "scroll"}

\* The action objects a caller may put in the list: `outputIsArray` matters
\* to evaluate, `direction` to scroll.
Actions ==
  {[type |-> ty, selector |-> sel, predefinedName |-> nm,
    direction |-> dir, outputIsArray |-> arr] :
     ty \in ActionTypes,
     sel \in {Undefined, Str(""), Str("#generic"), NotAString},
     nm \in {Undefined, Str("searchInput"), Str("nope")},
     dir \in {"element", "down"}, arr \in BOOLEAN}

NoAction ==
  [type |-> "none", selector |-> Undefined, predefinedName |-> Undefined,
   direction |-> "down", outputIsArray |-> TRUE]

\* No Page Interactor primitive in flight
NoCall == [prim |-> "none", selector |-> Null]

\* The call of _resolveSelector a step made, if it made one
NoResolve ==
  [called |-> FALSE, pageUrl |-> [valid |-> FALSE, hostname |-> <<>>],
   action |-> NoAction, result |-> Null]

\* executeActions(sessionId, actions, {stopOnError}) as it is invoked: `n` is
\* actions.length, `i` the loop index, `over` whether
\* Date.now() - startTime > overallTimeout by now, `results` the list returned
\* or raised, each result with the index of the action it was made for,
\* `resolve` the call of _resolveSelector made by the latest step, `tried`
\* the type of the action the latest step took from the list.
NewRun(n, stopOnError) ==
  [pc |-> "getSession", n |-> n, stopOnError |-> stopOnError, i |-> 0,
   results |-> <<>>, over |-> FALSE, action |-> NoAction, call |-> NoCall,
   outcome |-> "none", resolve |-> NoResolve, tried |-> "none"]

\* completedWithError of the object returned
completedWithError(r) ==
  \E k \in 1..Len(r.results) : ~r.results[k].success /\ r.stopOnError

actionResult(r, success) == [index |-> r.i, success |-> success]

\* The overall timeout never found exceeded
budgetNever(r) == FALSE

\* Date.now() - startTime > overallTimeout
budgetExceeded(r) == r.over

\* The outer catch block: the call raises an object carrying the results
execRaise(r, why) ==
  [r EXCEPT !.pc = "done", !.outcome = why, !.action = NoAction, !.call = NoCall]

\* The inner catch block going on to the next action under stopOnError
execFailNoBreak(r) ==
  LET pushed == Append(r.results, actionResult(r, FALSE))
  IN  [r EXCEPT !.results = pushed, !.i = r.i + 1, !.pc = "loop",
                !.action = NoAction, !.call = NoCall]

\* The inner catch block and the statement after it, for a failed action
execFail(r) ==
  LET pushed == Append(r.results, actionResult(r, FALSE))
  IN  IF r.stopOnError
      THEN [r EXCEPT !.results = pushed, !.pc = "final",
                     !.action = NoAction, !.call = NoCall]
      ELSE [r EXCEPT !.results = Append(pushed, actionResult(r, FALSE)),
                     !.i = r.i + 1, !.pc = "loop",
                     !.action = NoAction, !.call = NoCall]

\* The end of the try block and the statement after it, for a successful action
execSucceed(r) ==
  [r EXCEPT !.results = Append(r.results, actionResult(r, TRUE)),
            !.i = r.i + 1, !.pc = "loop", !.action = NoAction, !.call = NoCall]

execInvoke(r, prim, selector) ==
  [r EXCEPT !.pc = "inflight", !.call = [prim |-> prim, selector |-> selector]]

\* The switch without its guards on resolvedSelector
execDispatchUnguarded(r, resolvedSelector) ==
  LET a == r.action
  IN  IF a.type = "unsupported" THEN execFail(r)
      ELSE execInvoke(r, a.type,
                      IF a.type = "scroll" /\ a.direction # "element"
                      THEN Null ELSE resolvedSelector)

\* The switch with a default case that calls a primitive
execDispatchAnyType(r, resolvedSelector) ==
  LET a == r.action
  IN  CASE a.type \in {"click", "type", "waitForSelector"} ->
             IF resolvedSelector = Null THEN execFail(r)
             ELSE execInvoke(r, a.type, resolvedSelector)
        [] a.type = "evaluate" ->
             IF resolvedSelector = Null \/ ~a.outputIsArray THEN execFail(r)
             ELSE execInvoke(r, "evaluate", resolvedSelector)
        [] a.type = "scroll" ->
             IF a.direction = "element" /\ resolvedSelector = Null
             THEN execFail(r)
             ELSE execInvoke(r, "scroll", IF a.direction = "element"
                                          THEN resolvedSelector ELSE Null)
        [] OTHER -> execInvoke(r, a.type, Null)

\* switch (action.type): the guards and the call of the primitive
execDispatch(r, resolvedSelector) ==
  LET a == r.action
  IN  CASE a.type \in {"click", "type", "waitForSelector"} ->
             IF resolvedSelector = Null THEN execFail(r)
             ELSE execInvoke(r, a.type, resolvedSelector)
        [] a.type = "evaluate" ->
             IF resolvedSelector = Null \/ ~a.outputIsArray THEN execFail(r)
             ELSE execInvoke(r, "evaluate", resolvedSelector)
        [] a.type = "scroll" ->
             LET scrollTarget == IF a.direction = "element"
                                 THEN resolvedSelector ELSE Null
             IN  IF a.direction = "element" /\ scrollTarget = Null
                 THEN execFail(r)
                 ELSE execInvoke(r, "scroll", scrollTarget)
        [] a.type \in {"navigate", "solveCaptcha"} ->
             execInvoke(r, a.type, Null)
        [] OTHER -> execFail(r)

\* Whether the selector of the action is resolved at all
needsResolve(a) ==
  a.type \in SelectorTypes /\ (Truthy(a.selector) \/ Truthy(a.predefinedName))

\* await this.sessionManager.getSession(sessionId) settles
ExecGetSession ==
  \E res \in {"ok", "throws"} :
    /\ run.pc = "getSession"
    /\ run' = IF res = "ok" THEN [run EXCEPT !.pc = "loop"]
              ELSE execRaise(run, "getSessionError")
    /\ UNCHANGED <<mvars, ovars>>

\* The head of an iteration up to its first await: the budget check, the
\* connection check (a reconnect never succeeds, see reconnectSessionResume)
\* and the action's code up to page.url() or to the call of the primitive
ExecLoop ==
  \E connected \in BOOLEAN : \E a \in Actions :
    /\ run.pc = "loop"
    /\ LET r == [run EXCEPT !.resolve = NoResolve, !.tried = "none"]
           t == [r EXCEPT !.action = a, !.tried = a.type]
       IN run' = IF r.i >= r.n THEN [r EXCEPT !.pc = "final"]
                 ELSE IF budgetExceeded(r) THEN execRaise(r, "budget")
                 ELSE IF ~connected /\ ~launcherHasLaunch
                 THEN execRaise(r, "disconnected")
                 ELSE IF needsResolve(a) THEN [t EXCEPT !.pc = "url"]
                 ELSE execDispatch(t, Null)
    /\ UNCHANGED <<mvars, ovars>>

\* await page.url() settles; the selector is resolved and the primitive called
ExecResolve ==
  \E url \in PageUrls : \E threw \in BOOLEAN :
    /\ run.pc = "url"
    /\ LET resolvedSelector == _resolveSelector(url, run.action)
           q == [run EXCEPT !.tried = "none"]
           r == [q EXCEPT !.resolve = [called |-> TRUE, pageUrl |-> url,
                                       action |-> run.action,
                                       result |-> resolvedSelector]]
       IN run' = IF threw THEN execFail(q)
                 ELSE IF resolvedSelector = Null THEN execFail(r)
                 ELSE execDispatch(r, resolvedSelector)
    /\ UNCHANGED <<mvars, ovars>>

\* The primitive in flight settles
ExecSettle ==
  \E threw \in BOOLEAN :
    /\ run.pc = "inflight"
    /\ LET r == [run EXCEPT !.resolve = NoResolve, !.tried = "none"]
       IN run' = IF threw THEN execFail(r) ELSE execSucceed(r)
    /\ UNCHANGED <<mvars, ovars>>

\* After the loop: the final page state is read and the call returns
ExecReturn ==
  /\ run.pc = "final"
  /\ run' = [run EXCEPT !.pc = "done", !.outcome = "returned",
                        !.resolve = NoResolve, !.tried = "none"]
  /\ UNCHANGED <<mvars, ovars>>

\* The time since the start of the call passes overallTimeout
ExecBudgetRunsOut ==
  /\ run.pc \notin {"done", "idle"}
  /\ ~run.over
  /\ run' = [run EXCEPT !.over = TRUE, !.resolve = NoResolve, !.tried = "none"]
  /\ UNCHANGED <<mvars, ovars>>

InitExec ==
  /\ ManagerInit
  /\ page = NoPage /\ pcalls = <<>> /\ plast = NoPlast
  /\ login = NoLogin /\ launch = NoLaunch /\ extract = NoExtract
  /\ run \in {NewRun(n, stopOnError) : n \in 0..MaxActions, stopOnError \in BOOLEAN}

NextExec ==
  \/ ExecGetSession
  \/ ExecLoop
  \/ ExecResolve
  \/ ExecSettle
  \/ ExecReturn
  \/ ExecBudgetRunsOut

SpecExec == InitExec /\ [][NextExec]_vars

-----------------------------------------------------------------------------
(* Properties *)

Objs == 1..Len(obj)

\* Some call in flight holds a frame of fn at pc for session i
HasFrame(fn, pc, i) ==
  \E st \in BagToSet(calls) : \E k \in 1..Len(st) :
    st[k].fn = fn /\ st[k].pc = pc /\ st[k].sid = i

\* closeSession(i) has completed: the object is out of the pool for good
Closed(i) == i \in Objs /\ i \notin sessions /\ obj[i].isClosing

\* C1: a createSession invoked while the pool holds maxSessions (or more)
\* entries fails with the capacity error and leaves the pool as it is, and one
\* invoked below capacity is not refused; a closeSession that completes on a
\* full pool removes exactly its entry, leaving a free slot; a createSession
\* that completes successfully adds exactly one entry, its own new session.
C1_CapacityAndSlot ==
  [][ /\ (last'.fn = "createSession" /\ last'.top)
         => /\ (last'.out = "capacity") <=> (Cardinality(sessions) >= maxSessions)
            /\ sessions' = sessions /\ obj' = obj
      /\ (last'.fn = "closeSession" /\ last'.out \in {"closed", "closedWarned"})
         => /\ last'.sid \in sessions
            /\ sessions' = sessions \ {last'.sid}
            /\ Cardinality(sessions) = maxSessions
                 => Cardinality(sessions') < maxSessions
      /\ (last'.fn = "createSession" /\ last'.out = "created")
         => /\ last'.sid \notin sessions
            /\ sessions' = sessions \cup {last'.sid}
            /\ Cardinality(sessions') = Cardinality(sessions) + 1
    ]_vars

\* A createSession succeeded after the close of an earlier session completed,
\* and the pool is full again.
C1_Witness ==
  /\ last.fn = "createSession" /\ last.out = "created"
  /\ \E i \in Objs : Closed(i) /\ i < last.sid
  /\ Cardinality(sessions) = maxSessions

\* C2: the pool never holds more than maxSessions entries.
C2_PoolBounded == Cardinality(sessions) <= maxSessions

\* C3: closeSession on an id that is absent from the pool or already closing
\* returns normally and changes nothing; once a closeSession(i) has completed,
\* i stays out of the pool, so a later closeSession(i) is such a no-op and a
\* later getSession(i) fails with the not-found error.
C3_CloseIdempotent ==
  [][ /\ (last'.fn = "closeSession" /\ last'.top)
         => /\ (last'.out = "noop")
                 <=> (last'.sid \notin sessions \/ obj[last'.sid].isClosing)
            /\ last'.out = "noop"
                 => UNCHANGED <<sessions, obj, calls, pendingDisc>>
      /\ \A i \in Objs : Closed(i) =>
           /\ i \notin sessions' /\ obj'[i].isClosing
           /\ (last'.top /\ last'.sid = i /\ last'.fn = "closeSession")
                => last'.out = "noop"
           /\ (last'.top /\ last'.sid = i /\ last'.fn = "getSession")
                => last'.out = "notFound"
    ]_vars

\* A second closeSession on a session whose first close completed: a no-op.
C3_Witness ==
  /\ last.fn = "closeSession" /\ last.top /\ last.out = "noop"
  /\ Closed(last.sid)

\* C4: a session that getSession returns is pooled and not closing at that
\* moment; getSession on an id that is absent or closing fails with the
\* not-found error and changes neither the pool nor any session; the sweep
\* selects no session whose closing flag is set.
C4_ClosingExcluded ==
  [][ /\ (last'.fn = "getSession" /\ last'.out = "ok")
         => last'.sid \in sessions' /\ ~obj'[last'.sid].isClosing
      /\ (last'.fn = "getSession" /\ last'.top
            /\ (last'.sid \notin sessions \/ obj[last'.sid].isClosing))
         => last'.out = "notFound" /\ sessions' = sessions /\ obj' = obj
      /\ (last'.fn = "cleanupStaleSessions" /\ last'.top)
         => \A i \in last'.ids : i \in sessions /\ ~obj[i].isClosing
    ]_vars

\* The sweep ran over a pool holding a closing session whose connection is
\* gone, and selected nothing.
C4_Witness ==
  /\ last.fn = "cleanupStaleSessions" /\ last.top /\ last.ids = {}
  /\ \E i \in sessions : obj[i].isClosing /\ ~isConnected(obj[i])

\* C5: when reconnectSession gives up and raises its terminal error, the
\* session's handles are released and its entry is out of the pool.
C5_FailedReconnectRemoves ==
  (last.fn = "reconnectSession" /\ last.out \in {"failed", "retryFailed", "maxAttempts"})
    => /\ last.sid \notin sessions
       /\ obj[last.sid].browser = "null" /\ obj[last.sid].client = "null"

\* C6: when getSession raises the disconnected error, the session has been
\* removed from the pool; a session getSession returns is connected.
C6_DeadSessionTornDown ==
  /\ (last.fn = "getSession" /\ last.out = "disconnected") => last.sid \notin sessions
  /\ (last.fn = "getSession" /\ last.out = "ok") => isConnected(obj[last.sid])

\* C7: an error leaves reconnectSession, once it started an attempt, only after
\* connectionRetries attempts have been made.
C7_ErrorOnlyAfterCeiling ==
  (last.fn = "reconnectSession" /\ last.out \in {"failed", "retryFailed"})
    => obj[last.sid].reconnectAttempts = connectionRetries

\* A reconnect attempt on session i has started and awaits the teardown of
\* the stale handles
Attempting(i) == HasFrame("reconnectSession", "closeResources", i)
AttemptStarted(i) == ~Attempting(i) /\ Attempting(i)'

\* C8: every session's reconnect counter stays within 0..connectionRetries; a
\* step changes it only by adding one as it starts a reconnect attempt, or by
\* resetting it to zero as it installs the handles of a successful reconnect.
C8_AttemptCounter ==
  /\ [](\A i \in Objs : obj[i].reconnectAttempts \in 0..connectionRetries)
  /\ [][\A i \in Objs :
          /\ AttemptStarted(i)
               => obj'[i].reconnectAttempts = obj[i].reconnectAttempts + 1
          /\ obj'[i].reconnectAttempts # obj[i].reconnectAttempts
               => \/ /\ AttemptStarted(i)
                     /\ obj'[i].reconnectAttempts = obj[i].reconnectAttempts + 1
                  \/ /\ obj'[i].reconnectAttempts = 0
                     /\ obj[i].isClosing /\ ~obj'[i].isClosing
                     /\ isConnected(obj'[i])
       ]_vars

\* A reconnect attempt is under way and has been counted.
C8_Witness ==
  \E i \in sessions : Attempting(i) /\ obj[i].reconnectAttempts = 1

CloseInFlight(i) == HasFrame("closeSession", "closeResources", i)

\* C9: from the step that invokes a closeSession passing its guard until the
\* step that removes the entry, the session has its closing flag set; in that
\* interval no reconnect attempt for it starts and no getSession returns it.
C9_CloseMarksFirst ==
  /\ [](\A i \in Objs : CloseInFlight(i) => obj[i].isClosing)
  /\ [][\A i \in Objs : CloseInFlight(i) =>
          /\ ~AttemptStarted(i)
          /\ ~(last'.fn = "getSession" /\ last'.out = "ok" /\ last'.sid = i)
          /\ (i \in sessions' => obj'[i].isClosing)
       ]_vars

\* While a close is tearing session i down, a getSession(i) was turned away.
C9_Witness ==
  \E i \in Objs :
    /\ CloseInFlight(i)
    /\ last.fn = "getSession" /\ last.top /\ last.sid = i /\ last.out = "notFound"

Teardowns ==
  {f \in UNION {{st[k] : k \in 1..Len(st)} : st \in BagToSet(calls)} :
     f.fn = "closeResources"}

\* C10: the client is released before the browser, the browser by a negotiated
\* close only in a graceful teardown and by a kill otherwise; the step in
\* which closeSession removes the entry finds client, browser and page null,
\* also after a release that raised.
C10_TeardownOrder ==
  /\ [](\A i \in Objs : obj[i].browser = "null"
                          => obj[i].client = "null" /\ obj[i].page = "null")
  /\ [](\A f \in Teardowns :
          /\ f.pc = "detach" => obj[f.sid].client # "null" /\ obj[f.sid].browser # "null"
          /\ f.pc = "bclose" => /\ f.graceful
                                /\ obj[f.sid].client = "null"
                                /\ obj[f.sid].browser # "null")
  /\ [][ /\ \A i \in Objs :
              (isConnected(obj[i]) /\ obj'[i].browser = "null"
                 /\ ~HasFrame("closeResources", "bclose", i))
              => ~\E st \in BagToSet(calls') : \E k \in 1..Len(st) :
                    st[k].fn = "closeSession" /\ st[k].sid = i /\ st[k].graceful
         /\ (last'.fn = "closeSession" /\ last'.out \in {"closed", "closedWarned"})
              => /\ last'.sid \in sessions /\ last'.sid \notin sessions'
                 /\ obj[last'.sid].client = "null"
                 /\ obj[last'.sid].browser = "null"
                 /\ obj[last'.sid].page = "null"
                 /\ obj'[last'.sid] = obj[last'.sid]
       ]_vars

\* A close whose release raised has removed the entry, the handles null.
C10_Witness ==
  /\ last.fn = "closeSession" /\ last.out = "closedWarned"
  /\ last.sid \notin sessions
  /\ obj[last.sid].client = "null" /\ obj[last.sid].browser = "null"
  /\ obj[last.sid].page = "null"

\* Session i enters the pool in this step
Unpooled(i) == i \notin sessions /\ i \in sessions'

\* C11: a createSession that fails after it obtained a browser leaves pool and
\* sessions as they were, and the browser it obtained was closed by its catch
\* block or had disconnected; an id enters the pool only in the step in which
\* its createSession returns, with browser, page and client non-null.
C11_NoHalfInitialised ==
  [][ /\ \A i \in 1..Len(obj') :
           Unpooled(i)
             => /\ last'.fn = "createSession" /\ last'.out = "created"
                /\ last'.sid = i
                /\ obj'[i].browser # "null" /\ obj'[i].page # "null"
                /\ obj'[i].client # "null"
      /\ (last'.fn = "createSession" /\ last'.out \in {"launchError", "setupError"})
           => sessions' = sessions /\ obj' = obj
      /\ (last'.fn = "createSession" /\ last'.out = "setupError")
           => \E st \in BagToSet(calls) :
                /\ CopiesIn(st, calls') < CopiesIn(st, calls)
                /\ Top(st).fn = "createSession"
                /\ Top(st).browser \in {"closing", "disconnected"}
    ]_vars

\* A createSession whose setup raised has failed, the pool empty.
C11_Witness ==
  /\ last.fn = "createSession" /\ last.out = "setupError"
  /\ sessions = {}

\* C12: once the teardown of the stale handles has settled, a reconnect
\* attempt goes on to create the new browser; a reconnect that returns
\* normally leaves the session pooled under its id with connected handles, the
\* counter at zero, the closing flag false, the observer registered and the
\* inactivity timer pending.
C12_ReconnectSwapsHandles ==
  [][ /\ \A st \in BagToSet(calls) :
           ( /\ Top(st).fn = "reconnectSession" /\ Top(st).pc = "closeResources"
             /\ CopiesIn(st, calls') < CopiesIn(st, calls) )
           => \E n \in BagToSet(calls') :
                /\ Top(n).fn = "reconnectSession" /\ Top(n).pc = "launch"
                /\ Top(n).sid = Top(st).sid
      /\ (last'.fn = "reconnectSession" /\ last'.out = "ok")
           => /\ last'.sid \in sessions'
              /\ isConnected(obj'[last'.sid])
              /\ obj'[last'.sid].reconnectAttempts = 0
              /\ ~obj'[last'.sid].isClosing
              /\ obj'[last'.sid].observed
              /\ obj'[last'.sid].timeoutId = "pending"
    ]_vars

\* C13: a session on which a step of the sweep starts a close is stale at
\* the start of that step: not connected, or idle for longer than the timeout.
C13_SweepClosesOnlyStale ==
  [][ last'.fn = "cleanupStaleSessions"
        => \A i \in sessions :
             (~obj[i].isClosing /\ obj'[i].isClosing) => isStale(obj[i])
    ]_vars

\* C14: a close for inactivity (by the inactivity timer, or by the sweep on a
\* connected session) starts only on a session whose last use is more than
\* the timeout ago.
C14_NoEarlyEviction ==
  [][ \A i \in sessions :
        ( /\ ~obj[i].isClosing /\ obj'[i].isClosing
          /\ \/ last'.fn = "sessionTimeout"
             \/ last'.fn = "cleanupStaleSessions" /\ isConnected(obj[i]) )
        => obj[i].expired
    ]_vars

\* C15: the step that invokes shutdown clears the sweep timer and leaves every
\* pooled session closing, each one not closing before with a graceful
\* closeSession in flight; once cleared the timer stays cleared and no sweep
\* starts; the step in which shutdown returns leaves the pool empty.
C15_ShutdownEmptiesPool ==
  [][ /\ (last'.fn = "shutdown" /\ last'.top)
           => /\ ~cleanupInterval'
              /\ \A i \in sessions :
                   /\ i \in sessions' => obj'[i].isClosing
                   /\ ~obj[i].isClosing
                        => \E c \in BagToSet(calls') :
                             /\ c[1].fn = "closeSession" /\ c[1].sid = i
                             /\ c[1].graceful
      /\ ~cleanupInterval
           => /\ ~cleanupInterval'
              /\ ~(last'.fn = "cleanupStaleSessions" /\ last'.top)
      /\ (last'.fn = "shutdown" /\ last'.out = "shutdownDone") => sessions' = {}
    ]_vars

\* shutdown has returned after the closes it started on pooled sessions
\* settled.
C15_Witness ==
  /\ last.fn = "shutdown" /\ last.out = "shutdownDone" /\ last.ids # {}
  /\ sessions = {} /\ ~cleanupInterval

-----------------------------------------------------------------------------
(* Properties of executeActions (SpecExec) *)

\* The last result of the list is a failure
LastFailed(r) == r.results # <<>> /\ ~r.results[Len(r.results)].success

\* C16: with stopOnError the k-th result is the result of the k-th action, a
\* failed result is the last one, after a failed result nothing more is
\* dispatched, at the head of an iteration there is one result per action
\* executed, and a run that returns without a failure has a result for every
\* action.
C16_StopAtFirstFailure ==
  run.stopOnError =>
    /\ \A k \in 1..Len(run.results) :
         /\ run.results[k].index = k - 1
         /\ ~run.results[k].success => k = Len(run.results)
    /\ LastFailed(run) => run.pc \in {"final", "done"} /\ run.call = NoCall
    /\ (run.pc = "loop" /\ ~LastFailed(run)) => Len(run.results) = run.i
    /\ (run.outcome = "returned" /\ ~LastFailed(run)) => Len(run.results) = run.n

\* A run of three actions stopped at its second action, which failed.
C16_Witness ==
  /\ run.stopOnError /\ run.outcome = "returned" /\ run.n = MaxActions
  /\ Len(run.results) = 2
  /\ run.results[1].success /\ ~run.results[2].success

\* C17: without stopOnError a run that returns has exactly one result per
\* action, the k-th result being that of the k-th action.
C17_OneResultPerAction ==
  (~run.stopOnError /\ run.outcome = "returned")
    => /\ Len(run.results) = run.n
       /\ \A k \in 1..Len(run.results) : run.results[k].index = k - 1

\* The named action has a non-empty entry in the table for the domain of the
\* page: its hostname, or its hostname after a leading "www."
TableEntry(pageUrl, action) ==
  IF /\ action.predefinedName.t = "string" /\ action.predefinedName.v # ""
     /\ pageUrl.valid
     /\ \E d \in DOMAIN websiteSelectors :
          /\ pageUrl.hostname \in {d, <<"www">> \o d}
          /\ action.predefinedName.v \in DOMAIN websiteSelectors[d]
          /\ websiteSelectors[d][action.predefinedName.v] # ""
  THEN LET d == CHOOSE d \in DOMAIN websiteSelectors :
                  pageUrl.hostname \in {d, <<"www">> \o d}
       IN  Str(websiteSelectors[d][action.predefinedName.v])
  ELSE Null

LocatorCall(r) ==
  \/ r.call.prim \in {"click", "type", "waitForSelector", "evaluate"}
  \/ r.call.prim = "scroll" /\ r.action.direction = "element"

C20_BudgetBetweenActions ==
  [][ /\ (run.pc = "loop" /\ run.i < run.n /\ run.over)
           => /\ run'.pc = "done" /\ run'.outcome = "budget"
              /\ run'.results = run.results
      /\ (run.outcome = "none" /\ run'.outcome = "budget")
           => run.pc = "loop" /\ run.over /\ run.i < run.n
      /\ (run.pc = "inflight" /\ run'.pc # "inflight")
           => /\ run'.outcome = "none"
              /\ Len(run'.results) > Len(run.results)
              /\ run'.results[Len(run.results) + 1].index = run.i
    ]_vars

\* The budget ran out during the second action: its result was recorded and
\* the call raised at the head of the third iteration.
C20_Witness ==
  /\ run.outcome = "budget" /\ run.n = MaxActions
  /\ Len(run.results) = 2 /\ run.results[2].success

-----------------------------------------------------------------------------
(* BrowserLauncher.launchOrConnect *)

\* config.retryDelayMs
retryDelayMs == 1000

\* What a failed puppeteer call raises
LaunchErrors == {"timeout", "crash"}

\* A puppeteer call that resolved
Resolved == "ok"

\* launchOrConnect up to its first await: puppeteer.connect with an endpoint,
\* else the first puppeteer.launch.  `log` has the outcome of every attempt
\* made so far (whether it got a browser, and how its last await settled),
\* `waits` the delays slept so far, `lastError` the error caught last.
NewLaunch(browserWSEndpoint) ==
  [pc |-> IF browserWSEndpoint THEN "connect" ELSE "launch",
   browserWSEndpoint |-> browserWSEndpoint, attempt |-> 1,
   log |-> <<>>, waits |-> <<>>, lastError |-> "none", out |-> "none"]

\* The outcome of the attempt under way: its last await settled as `res`
Attempt(l, res) == [browser |-> l.pc = "version", result |-> res]

\* return browser
launchReturn(l) ==
  [l EXCEPT !.pc = "done", !.out = "browser",
            !.log = Append(l.log, Attempt(l, Resolved))]

\* The catch block of the connection logic
connectCatch(l, error) ==
  [l EXCEPT !.pc = "done", !.out = "connectError", !.lastError = error,
            !.log = Append(l.log, Attempt(l, error))]

\* The catch block of the launch loop sleeping retryDelay after every failure
launchCatchFlatDelay(l, error) ==
  LET c == [l EXCEPT !.lastError = error,
                     !.log = Append(l.log, Attempt(l, error))]
  IN  IF l.attempt < connectionRetries
      THEN [c EXCEPT !.pc = "wait", !.waits = Append(l.waits, retryDelayMs)]
      ELSE [c EXCEPT !.pc = "done", !.out = "launchError"]

\* The catch block of the launch loop, and the throw after the loop when the
\* failed attempt was the last
launchCatch(l, error) ==
  LET c == [l EXCEPT !.lastError = error,
                     !.log = Append(l.log, Attempt(l, error))]
  IN  IF l.attempt < connectionRetries
      THEN [c EXCEPT !.pc = "wait",
                     !.waits = Append(l.waits, retryDelayMs * l.attempt)]
      ELSE [c EXCEPT !.pc = "done", !.out = "launchError"]

\* await puppeteer.connect(...) settles
LaunchConnectSettles ==
  \E res \in {Resolved} \cup LaunchErrors :
    /\ launch.pc = "connect"
    /\ launch' = IF res = Resolved THEN [launch EXCEPT !.pc = "version"]
                 ELSE connectCatch(launch, res)
    /\ UNCHANGED <<mvars, run, page, pcalls, plast, login, extract>>

\* await puppeteer.launch(effectiveOptions) settles
LaunchLaunchSettles ==
  \E res \in {Resolved} \cup LaunchErrors :
    /\ launch.pc = "launch"
    /\ launch' = IF res = Resolved THEN [launch EXCEPT !.pc = "version"]
                 ELSE launchCatch(launch, res)
    /\ UNCHANGED <<mvars, run, page, pcalls, plast, login, extract>>

\* await browser.version() settles
LaunchVersionSettles ==
  \E res \in {Resolved} \cup LaunchErrors :
    /\ launch.pc = "version"
    /\ launch' = IF res = Resolved THEN launchReturn(launch)
                 ELSE IF launch.browserWSEndpoint THEN connectCatch(launch, res)
                 ELSE launchCatch(launch, res)
    /\ UNCHANGED <<mvars, run, page, pcalls, plast, login, extract>>

\* await setTimeout(this.retryDelay * attempt) ends; the next attempt starts
LaunchWaitEnds ==
  /\ launch.pc = "wait"
  /\ launch' = [launch EXCEPT !.pc = "launch", !.attempt = launch.attempt + 1]
  /\ UNCHANGED <<mvars, run, page, pcalls, plast, login, extract>>

InitLaunch ==
  /\ ManagerInit
  /\ run = NoRun
  /\ page = NoPage /\ pcalls = <<>> /\ plast = NoPlast
  /\ login = NoLogin /\ extract = NoExtract
  /\ launch \in {NewLaunch(e) : e \in BOOLEAN}

NextLaunch ==
  \/ LaunchConnectSettles
  \/ LaunchLaunchSettles
  \/ LaunchVersionSettles
  \/ LaunchWaitEnds

\* puppeteer.connect and puppeteer.launch are given a timeout, the version
\* query is a protocol call that is answered or rejected, and the timer of
\* setTimeout fires: every await of launchOrConnect settles.
SpecLaunch ==
  /\ InitLaunch
  /\ [][NextLaunch]_vars
  /\ WF_vars(LaunchConnectSettles)
  /\ WF_vars(LaunchLaunchSettles)
  /\ WF_vars(LaunchVersionSettles)
  /\ WF_vars(LaunchWaitEnds)

-----------------------------------------------------------------------------
(* Properties of launchOrConnect (SpecLaunch) *)

\* The attempts of `log` before its last one all failed
EarlierFailed(log) == \A k \in 1..Len(log) - 1 : log[k].result \in LaunchErrors

\* C26: without an endpoint at most connectionRetries attempts are made, the
\* k-th failed attempt but the last possible one is followed by a wait of
\* retryDelay * k, the browser returned is that of the first attempt whose
\* launch and version query both succeeded, and the launch error is raised
\* after connectionRetries failed attempts; with an endpoint one attempt is
\* made and its failure is raised.  The call always ends.
C26_BoundedRetries ==
  /\ [](launch.browserWSEndpoint
          => /\ Len(launch.log) <= 1 /\ launch.waits = <<>>
             /\ launch.pc = "done"
                  => /\ Len(launch.log) = 1
                     /\ launch.out = IF launch.log[1].result = Resolved
                                     THEN "browser" ELSE "connectError")
  /\ [](~launch.browserWSEndpoint
          => /\ Len(launch.log) <= connectionRetries
             /\ EarlierFailed(launch.log)
             /\ Len(launch.waits) =
                  Cardinality({k \in 1..Len(launch.log) :
                                 /\ launch.log[k].result \in LaunchErrors
                                 /\ k < connectionRetries})
             /\ \A k \in 1..Len(launch.waits) : launch.waits[k] = retryDelayMs * k
             /\ launch.pc = "done"
                  => /\ launch.log # <<>>
                     /\ launch.out =
                          IF launch.log[Len(launch.log)].result = Resolved
                          THEN "browser" ELSE "launchError"
                     /\ launch.out = "browser"
                          => launch.log[Len(launch.log)].browser
                     /\ launch.out = "launchError"
                          => /\ Len(launch.log) = connectionRetries
                             /\ launch.lastError =
                                  launch.log[connectionRetries].result)
  /\ <>(launch.pc = "done")

\* The third launch attempt returned the browser, after waits of 1 s and 2 s.
C26_Witness ==
  /\ ~launch.browserWSEndpoint /\ launch.out = "browser"
  /\ Len(launch.log) = connectionRetries
  /\ launch.waits = <<retryDelayMs, 2 * retryDelayMs>>

-----------------------------------------------------------------------------
(* PageInteractor: navigate, enableRequestInterception and                 *)
(* disableRequestInterception on one page                                  *)

\* Page Interactor calls in flight on the page at once.
MaxPageCalls == 2

\* URLs as <<scheme, rest>>
AboutBlank == <<"about", "blank">>
ErrorPage == <<"chrome-error", "chromewebdata/">>
Urls == {AboutBlank, ErrorPage, <<"https", "a.example/">>, <<"https", "b.example/">>}

\* currentUrl.startsWith('chrome-error://')
startsWithChromeError(u) == u[1] = "chrome-error"

\* The request handlers callers pass to enableRequestInterception
Handlers == {"h1", "h2"}

\* An open page showing `url`, without interception
OpenPage(url) ==
  [closed |-> FALSE, interception |-> FALSE, listeners |-> <<>>, url |-> url]

\* The catch block of navigate for a TimeoutError: how the call ends when
\* the page shows currentUrl
navigateTimedOut(url, startUrl, currentUrl) ==
  IF currentUrl # url /\ ~startsWithChromeError(currentUrl) THEN "returned"
  ELSE IF currentUrl = AboutBlank \/ startsWithChromeError(currentUrl)
  THEN "navFailure"
  ELSE "returned"

\* How navigate ends when Promise.all settled as `res`
navigateEnd(url, startUrl, res, currentUrl) ==
  IF res = "ok" THEN "returned"
  ELSE IF res = "TimeoutError" THEN navigateTimedOut(url, startUrl, currentUrl)
  ELSE "rethrown"

\* page.on('request', handler) without page.removeAllListeners('request')
enableAttachKeep(p, handler) ==
  [p EXCEPT !.interception = TRUE, !.listeners = Append(p.listeners, handler)]

\* enableRequestInterception after await page.setRequestInterception(true)
enableAttach(p, handler) ==
  [p EXCEPT !.interception = TRUE, !.listeners = <<handler>>]

\* disableRequestInterception up to its await: removeAllListeners('request')
disableDetach(p) == [p EXCEPT !.listeners = <<>>]

\* A call starts: the calls in flight are overlapped by it
Overlapped(cs) == [k \in 1..Len(cs) |-> [cs[k] EXCEPT !.overlapped = TRUE]]

\* The calls in flight without the k-th
Without(cs, k) == SubSeq(cs, 1, k - 1) \o SubSeq(cs, k + 1, Len(cs))

\* navigate(client, page, url) up to await Promise.all([...])
CallNavigate ==
  \E url \in Urls \ {ErrorPage} :
    /\ Len(pcalls) < MaxPageCalls
    /\ ~page.closed
    /\ pcalls' = Append(Overlapped(pcalls),
                        [fn |-> "navigate", url |-> url, startUrl |-> page.url,
                         handler |-> "none", overlapped |-> pcalls # <<>>])
    /\ UNCHANGED <<mvars, run, page, plast, login, launch, extract>>

\* Promise.all settles, the page now showing currentUrl, and navigate ends
SettleNavigate ==
  \E k \in 1..Len(pcalls) : \E res \in {"ok", "TimeoutError", "Error"} :
  \E currentUrl \in Urls :
    /\ pcalls[k].fn = "navigate"
    /\ res = "ok" => ~startsWithChromeError(currentUrl)
    /\ page' = [page EXCEPT !.url = currentUrl]
    /\ plast' = [fn |-> "navigate", url |-> pcalls[k].url,
                 startUrl |-> pcalls[k].startUrl, error |-> res,
                 currentUrl |-> currentUrl, handler |-> "none",
                 overlapped |-> pcalls[k].overlapped,
                 result |-> navigateEnd(pcalls[k].url, pcalls[k].startUrl,
                                        res, currentUrl)]
    /\ pcalls' = Without(pcalls, k)
    /\ UNCHANGED <<mvars, run, login, launch, extract>>

\* enableRequestInterception(page, handler) up to its await
CallEnableRequestInterception ==
  \E handler \in Handlers :
    /\ Len(pcalls) < MaxPageCalls
    /\ IF page.closed
       THEN /\ plast' = [fn |-> "enableRequestInterception", url |-> AboutBlank,
                         startUrl |-> AboutBlank, error |-> "none",
                         currentUrl |-> AboutBlank, handler |-> handler,
                         overlapped |-> pcalls # <<>>, result |-> "skipped"]
            /\ UNCHANGED pcalls
       ELSE /\ pcalls' = Append(Overlapped(pcalls),
                                [fn |-> "enableRequestInterception",
                                 url |-> AboutBlank, startUrl |-> AboutBlank,
                                 handler |-> handler,
                                 overlapped |-> pcalls # <<>>])
            /\ UNCHANGED plast
    /\ UNCHANGED <<mvars, run, page, login, launch, extract>>

\* await page.setRequestInterception(true) settles
SettleEnableRequestInterception ==
  \E k \in 1..Len(pcalls) : \E threw \in BOOLEAN :
    /\ pcalls[k].fn = "enableRequestInterception"
    /\ page.closed => threw
    /\ page' = IF threw THEN page ELSE enableAttach(page, pcalls[k].handler)
    /\ plast' = [fn |-> "enableRequestInterception", url |-> AboutBlank,
                 startUrl |-> AboutBlank, error |-> "none",
                 currentUrl |-> AboutBlank, handler |-> pcalls[k].handler,
                 overlapped |-> pcalls[k].overlapped,
                 result |-> IF threw THEN "rethrown" ELSE "returned"]
    /\ pcalls' = Without(pcalls, k)
    /\ UNCHANGED <<mvars, run, login, launch, extract>>

\* disableRequestInterception(page) up to its await
CallDisableRequestInterception ==
  /\ Len(pcalls) < MaxPageCalls
  /\ IF page.closed
     THEN /\ plast' = [fn |-> "disableRequestInterception", url |-> AboutBlank,
                       startUrl |-> AboutBlank, error |-> "none",
                       currentUrl |-> AboutBlank, handler |-> "none",
                       overlapped |-> pcalls # <<>>, result |-> "skipped"]
          /\ UNCHANGED <<pcalls, page>>
     ELSE /\ page' = disableDetach(page)
          /\ pcalls' = Append(Overlapped(pcalls),
                              [fn |-> "disableRequestInterception",
                               url |-> AboutBlank, startUrl |-> AboutBlank,
                               handler |-> "none", overlapped |-> pcalls # <<>>])
          /\ UNCHANGED plast
  /\ UNCHANGED <<mvars, run, login, launch, extract>>

\* await page.setRequestInterception(false) settles; an error is swallowed
SettleDisableRequestInterception ==
  \E k \in 1..Len(pcalls) : \E threw \in BOOLEAN :
    /\ pcalls[k].fn = "disableRequestInterception"
    /\ page.closed => threw
    /\ page' = IF threw THEN page ELSE [page EXCEPT !.interception = FALSE]
    /\ plast' = [fn |-> "disableRequestInterception", url |-> AboutBlank,
                 startUrl |-> AboutBlank, error |-> "none",
                 currentUrl |-> AboutBlank, handler |-> "none",
                 overlapped |-> pcalls[k].overlapped, result |-> "returned"]
    /\ pcalls' = Without(pcalls, k)
    /\ UNCHANGED <<mvars, run, login, launch, extract>>

\* The page is closed (page.close(), or its browser goes away)
PageCloses ==
  /\ ~page.closed
  /\ page' = [page EXCEPT !.closed = TRUE]
  /\ UNCHANGED <<mvars, run, pcalls, plast, login, launch, extract>>

InitPage ==
  /\ ManagerInit
  /\ run = NoRun
  /\ login = NoLogin /\ launch = NoLaunch /\ extract = NoExtract
  /\ page \in {OpenPage(u) : u \in Urls \ {ErrorPage}}
  /\ pcalls = <<>>
  /\ plast = NoPlast

NextPage ==
  \/ CallNavigate
  \/ SettleNavigate
  \/ CallEnableRequestInterception
  \/ SettleEnableRequestInterception
  \/ CallDisableRequestInterception
  \/ SettleDisableRequestInterception
  \/ PageCloses

SpecPage == InitPage /\ [][NextPage]_vars

-----------------------------------------------------------------------------
(* Properties of the Page Interactor (SpecPage) *)

\* The step ends a call of fn that went past its guard
Ended(fn) == Len(pcalls') < Len(pcalls) /\ plast'.fn = fn

\* C27: a navigate whose load condition timed out returns without error
\* exactly when the page's URL differs from the URL it had before the
\* navigation started and is neither about:blank nor an error page; an error
\* other than a timeout is re-raised.
C27_TimeoutTolerated ==
  [][ Ended("navigate") =>
        /\ plast'.error = "TimeoutError" =>
             ( plast'.result = "returned"
                 <=> /\ plast'.currentUrl # plast'.startUrl
                     /\ plast'.currentUrl # AboutBlank
                     /\ ~startsWithChromeError(plast'.currentUrl) )
        /\ plast'.error = "TimeoutError" => plast'.result # "rethrown"
        /\ plast'.error = "Error" => plast'.result = "rethrown"
    ]_vars

\* C28: the page never has more than one request handler; when an
\* enableRequestInterception returns, the handler of that call is the only one
\* attached; a disableRequestInterception on an open page removes every
\* handler, and none is attached when it returns unless another call
\* overlapped it.
C28_OneRequestHandler ==
  /\ [](Len(page.listeners) <= 1)
  /\ [][ /\ (Ended("enableRequestInterception") /\ plast'.result = "returned")
              => page'.listeners = <<plast'.handler>>
         /\ ( /\ Len(pcalls') > Len(pcalls)
              /\ pcalls'[Len(pcalls')].fn = "disableRequestInterception" )
              => page'.listeners = <<>>
         /\ (Ended("disableRequestInterception") /\ ~plast'.overlapped)
              => page'.listeners = <<>>
       ]_vars

\* The second of two enables in a row, with another handler, has returned:
\* its handler replaced that of the first.
C28_Witness ==
  /\ plast.fn = "enableRequestInterception" /\ plast.result = "returned"
  /\ plast.handler = "h2" /\ ~plast.overlapped
  /\ page.listeners = <<"h2">> /\ page.interception
  /\ pcalls = <<>>

-----------------------------------------------------------------------------
(* PageInteractor.extractStructuredData *)

\* Parent elements matching parentSelector, and output items in a config.
MaxParents == 5
MaxConfig == 2

\* Values in the page: null, the text of a child (as read, or trimmed) and
\* the value of an attribute of a child; `at` is the position of the parent
\* the child belongs to.
XNull == [t |-> "null", sel |-> "", at |-> 0, of |-> "", padded |-> FALSE]
XText(child) ==
  [t |-> "string", sel |-> child.sel, at |-> child.at, of |-> "innerText",
   padded |-> TRUE]
XAttr(child, attribute) ==
  [t |-> "string", sel |-> child.sel, at |-> child.at, of |-> attribute,
   padded |-> FALSE]

\* String.prototype.trim
trim(x) == [x EXCEPT !.padded = FALSE]

\* The limit passed by the caller
Num(n) == [t |-> "number", v |-> n]
Limits == {Undefined, Str("2"), Num(0), Num(2), Num(7)}

\* The child selectors used by the configs, and the parents: one with both
\* children, one with only the child "b", one with none
ChildSelectors == {"a", "b"}
ParentKinds == {"full", "partial", "empty"}
NoElement == [sel |-> "", at |-> 0]

\* parentElement.querySelector(selector)
querySelector(parentElement, selector) ==
  IF \/ parentElement.kind = "full" /\ selector \in ChildSelectors
     \/ parentElement.kind = "partial" /\ selector = "b"
  THEN [sel |-> selector, at |-> parentElement.at]
  ELSE NoElement

\* childElement.getAttribute(attribute): the children "b" are links
getAttribute(childElement, attribute) ==
  IF childElement.sel = "b" /\ attribute = "href"
  THEN XAttr(childElement, attribute) ELSE XNull

\* The output items: a text, a link, one without selector, one of unknown type
OutputItems ==
  { [name |-> "title", type |-> "text", selector |-> "a"],
    [name |-> "url", type |-> "link", selector |-> "b"],
    [name |-> "bad", type |-> "text", selector |-> ""],
    [name |-> "odd", type |-> "html", selector |-> "a"] }

\* Sequences of at most n members of S
SeqUpTo(S, n) == UNION {[1..k -> S] : k \in 0..n}

Min(a, b) == IF a < b THEN a ELSE b

\* itemData[name] = value on an object given as its <<name, value>> pairs in
\* insertion order
setKey(itemData, name, value) ==
  IF \E j \in 1..Len(itemData) : itemData[j][1] = name
  THEN [j \in 1..Len(itemData) |->
          IF itemData[j][1] = name THEN <<name, value>> ELSE itemData[j]]
  ELSE Append(itemData, <<name, value>>)

\* The number of parents to process, ignoring dataLimit
extractCountAll(elements, dataLimit) == Len(elements)

\* const count = (typeof dataLimit === 'number' && dataLimit > 0) ? ... : ...
extractCount(elements, dataLimit) ==
  IF dataLimit.t = "number" /\ dataLimit.v > 0
  THEN Min(Len(elements), dataLimit.v)
  ELSE Len(elements)

\* The value stored for one output item of one parent
extractField(parentElement, outputItem) ==
  LET childElement == querySelector(parentElement, outputItem.selector)
  IN  IF childElement = NoElement THEN XNull
      ELSE CASE outputItem.type = "text" -> trim(XText(childElement))
             [] outputItem.type = "link" -> getAttribute(childElement, "href")
             [] OTHER -> XNull

\* for (const outputItem of config) { ... } on itemData, from item j on
RECURSIVE extractItem(_, _, _, _)
extractItem(parentElement, config, j, itemData) ==
  IF j > Len(config) THEN itemData
  ELSE LET outputItem == config[j]
       IN  IF outputItem.name = "" \/ outputItem.type = "" \/ outputItem.selector = ""
           THEN extractItem(parentElement, config, j + 1, itemData)
           ELSE extractItem(parentElement, config, j + 1,
                            setKey(itemData, outputItem.name,
                                   extractField(parentElement, outputItem)))

\* for (let i = 0; i < count; i++) { ... } from parent i on (1-based)
RECURSIVE extractLoop(_, _, _, _, _)
extractLoop(elements, config, count, i, extracted) ==
  IF i > count THEN extracted
  ELSE LET itemData == extractItem(elements[i], config, 1, <<>>)
       IN  extractLoop(elements, config, count, i + 1,
                       IF \E j \in 1..Len(itemData) : itemData[j][2] # XNull
                       THEN Append(extracted, itemData) ELSE extracted)

\* The function evaluated in the page by page.$$eval
extractInPage(elements, config, dataLimit) ==
  extractLoop(elements, config, extractCount(elements, dataLimit), 1, <<>>)

\* extractStructuredData up to await page.waitForSelector(parentSelector)
NewExtract(elements, config, limit) ==
  [pc |-> "waitForSelector", elements |-> elements, config |-> config,
   limit |-> limit, results |-> <<>>, out |-> "none"]

\* await page.waitForSelector settles: a failure is logged and the
\* evaluation goes ahead
ExtractWaitSettles ==
  \E threw \in BOOLEAN :
    /\ extract.pc = "waitForSelector"
    /\ extract' = [extract EXCEPT !.pc = "eval"]
    /\ UNCHANGED <<mvars, run, page, pcalls, plast, login, launch>>

\* await page.$$eval(...) settles
ExtractEvalSettles ==
  \E res \in {"ok", "TimeoutError", "Error"} :
    /\ extract.pc = "eval"
    /\ extract' =
         IF res = "ok"
         THEN [extract EXCEPT !.pc = "done", !.out = "returned",
                 !.results = extractInPage(extract.elements, extract.config,
                                           extract.limit)]
         ELSE [extract EXCEPT !.pc = "done",
                 !.out = IF res = "TimeoutError" THEN "timedOut" ELSE "rethrown"]
    /\ UNCHANGED <<mvars, run, page, pcalls, plast, login, launch>>

InitExtract ==
  /\ ManagerInit
  /\ run = NoRun
  /\ page = NoPage /\ pcalls = <<>> /\ plast = NoPlast
  /\ login = NoLogin /\ launch = NoLaunch
  /\ extract \in
       { NewExtract([i \in 1..Len(kinds) |-> [at |-> i, kind |-> kinds[i]]],
                    config, limit) :
           kinds \in SeqUpTo(ParentKinds, MaxParents),
           config \in SeqUpTo(OutputItems, MaxConfig),
           limit \in Limits }

NextExtract ==
  \/ ExtractWaitSettles
  \/ ExtractEvalSettles

SpecExtract == InitExtract /\ [][NextExtract]_vars

-----------------------------------------------------------------------------
(* Properties of extractStructuredData (SpecExtract) *)

\* An output item with a name, a type and a selector
ValidItem(item) == item.name # "" /\ item.type # "" /\ item.selector # ""

\* The names of the valid items of the config, in declared order
RECURSIVE FieldNames(_)
FieldNames(config) ==
  IF config = <<>> THEN <<>>
  ELSE LET rest == FieldNames(SubSeq(config, 1, Len(config) - 1))
           item == config[Len(config)]
       IN  IF ValidItem(item) /\ ~\E j \in 1..Len(rest) : rest[j] = item.name
           THEN Append(rest, item.name) ELSE rest

\* The parent a record was made from: the parent of its non-null values
ParentOf(rec) ==
  CHOOSE i \in 0..MaxParents :
    \/ \E j \in 1..Len(rec) : rec[j][2] # XNull /\ rec[j][2].at = i
    \/ i = 0 /\ \A j \in 1..Len(rec) : rec[j][2] = XNull

\* The parent has something for the config: a text child "a" for a text item
\* on "a", or a link child "b" for a link item on "b"
HasData(parentElement, config) ==
  \E j \in 1..Len(config) :
    \/ /\ config[j] = [name |-> "title", type |-> "text", selector |-> "a"]
       /\ parentElement.kind = "full"
    \/ /\ config[j] = [name |-> "url", type |-> "link", selector |-> "b"]
       /\ parentElement.kind \in {"full", "partial"}

\* C23: with a positive numeric limit the records returned come from the
\* first min(limit, number of parents) parents, at most one per parent and in
\* parent order, one for every such parent that has data; every record has the
\* names of the valid output items in declared order, null where the child
\* element is missing, and some value that is not null.
C23_LimitedExtraction ==
  ( /\ extract.out = "returned"
    /\ extract.limit.t = "number" /\ extract.limit.v > 0 )
  => LET res == extract.results
         m == Min(extract.limit.v, Len(extract.elements))
     IN  /\ Len(res) <= m
         /\ \A k \in 1..Len(res) :
              /\ ParentOf(res[k]) \in 1..m
              /\ \A l \in 1..Len(res) : k < l => ParentOf(res[k]) < ParentOf(res[l])
              /\ [j \in 1..Len(res[k]) |-> res[k][j][1]] = FieldNames(extract.config)
              /\ \A j \in 1..Len(res[k]) :
                   /\ res[k][j][2] # XNull => res[k][j][2].at = ParentOf(res[k])
                   /\ \A item \in OutputItems :
                        ( /\ item.name = res[k][j][1]
                          /\ querySelector(extract.elements[ParentOf(res[k])],
                                           item.selector) = NoElement )
                        => res[k][j][2] = XNull
         /\ \A i \in 1..m :
              HasData(extract.elements[i], extract.config)
                <=> \E k \in 1..Len(res) : ParentOf(res[k]) = i

\* Five parents that each have data, limit 2: exactly the first two records.
C23_Witness ==
  /\ extract.out = "returned"
  /\ extract.limit = Num(2)
  /\ Len(extract.elements) = MaxParents
  /\ \A i \in 1..MaxParents : extract.elements[i].kind = "full"
  /\ Len(extract.config) = 2 /\ FieldNames(extract.config) = <<"title", "url">>
  /\ Len(extract.results) = 2
  /\ ParentOf(extract.results[1]) = 1 /\ ParentOf(extract.results[2]) = 2

-----------------------------------------------------------------------------
(* BrowserService.login and LoginHandler.login *)

\* The entries of staySignedInSelectors in the revision of LoginHandler that
\* lists them
numStaySignedInSelectors == 7

\* The two revisions of LoginHandler.login in the source: one that detects
\* selectors in the page when the caller left one out (`detects`), clicks the
\* listed post-login prompts and awaits verifyLoginSuccess; one that takes
\* selectors and credentials from the configuration and the environment, has
\* an empty prompt list and sets loginSuccessful = true.
Revisions ==
  { [detects |-> TRUE, prompts |-> numStaySignedInSelectors, verifies |-> TRUE,
     lookups |-> FALSE],
    [detects |-> FALSE, prompts |-> numStaySignedInSelectors, verifies |-> TRUE,
     lookups |-> FALSE],
    [detects |-> FALSE, prompts |-> 0, verifies |-> FALSE, lookups |-> TRUE] }

\* A pooled session as createSession leaves it
PooledSession ==
  [NewSession EXCEPT !.observed = TRUE, !.timeoutId = "pending", !.timers = 1]

\* What the page shows when login reads its final state: the four tests of the
\* function verifyLoginSuccess evaluates in the page, and the URL test of its
\* fallback (same host, no login/auth/error word, not the login URL)
FinalPage(hasLoginError, urlIsDifferentAndNotAuth, passwordFieldGone, hasSuccessIndicator, fallbackUrlOk) ==
  [hasLoginError |-> hasLoginError,
   urlIsDifferentAndNotAuth |-> urlIsDifferentAndNotAuth,
   passwordFieldGone |-> passwordFieldGone,
   hasSuccessIndicator |-> hasSuccessIndicator,
   fallbackUrlOk |-> fallbackUrlOk]

\* The login form as it is before anything was submitted, or after a
\* submission that changed nothing
LoginForm == FinalPage(FALSE, FALSE, FALSE, FALSE, FALSE)

\* The pages a submission leads to: the form again, the form with an error
\* message (wrong password), the signed-in site, a page without password field
\* on the login URL, and an error page elsewhere on the site
FinalPages ==
  { LoginForm,
    FinalPage(TRUE, FALSE, FALSE, FALSE, FALSE),
    FinalPage(FALSE, TRUE, TRUE, TRUE, TRUE),
    FinalPage(FALSE, FALSE, TRUE, FALSE, FALSE),
    FinalPage(TRUE, TRUE, TRUE, FALSE, TRUE) }

\* LoginHandler.verifyLoginSuccess on the page pg; `evaluated` tells whether
\* pageInteractor.evaluate resolved (otherwise the catch block decides on the
\* URL alone)
verifyLoginSuccess(pg, evaluated) ==
  IF evaluated
  THEN ~pg.hasLoginError /\ ( \/ pg.urlIsDifferentAndNotAuth
                             \/ pg.passwordFieldGone
                             \/ pg.hasSuccessIndicator )
  ELSE pg.fallbackUrlOk

\* BrowserService.login up to await this.sessionManager.getSession(sessionId).
\* `credentials` is "ok" (given, or found in the environment), "missing"
\* (target given, nothing in the environment) or "none"; `issued` lists the
\* steps issued so far with their results; `listeners` counts the network
\* listeners login has on the client.
NewLogin(rev, credentials, loginUrl, nextButtonSelector, twoFactorOptions) ==
  [pc |-> "getSession", rev |-> rev, credentials |-> credentials,
   loginUrl |-> loginUrl, nextButtonSelector |-> nextButtonSelector,
   twoFactorOptions |-> twoFactorOptions,
   issued |-> <<>>, prompt |-> 0, passwordVisible |-> FALSE,
   nextButtonClicked |-> FALSE, requires2FA |-> FALSE,
   timedOut |-> FALSE, pageClosed |-> FALSE, listeners |-> 0,
   error |-> "none", out |-> "none", success |-> FALSE, message |-> <<>>,
   finalPage |-> LoginForm]

\* The step awaited settles as `result`
loginSettled(l, result) ==
  [l EXCEPT !.issued[Len(l.issued)].result = result]

\* A step is issued: the call of a primitive up to its await
loginIssue(l, step) ==
  [l EXCEPT !.pc = step,
            !.issued = Append(l.issued, [step |-> step, result |-> "pending"])]

\* return {...}; the finally block removes the network listeners
loginReturn(l, success, message) ==
  [l EXCEPT !.pc = "done", !.out = "returned", !.success = success,
            !.message = message, !.listeners = 0]

\* A throw before the try block, or of getSession: login raises
loginRaise(l, error) ==
  [l EXCEPT !.pc = "done", !.out = "raised", !.error = error]

\* The end of the catch block: return { success: false, error, message }
loginFailure(l) == loginReturn(l, FALSE, <<"Login failed: ", l.error>>)

\* The catch block returning without a message
loginCatchNoMessage(l, error) ==
  LET c == [l EXCEPT !.error = error]
  IN  IF c.pageClosed THEN loginReturn(c, FALSE, <<>>)
      ELSE [c EXCEPT !.pc = "finalUrl"]

\* catch (error) of the try block, up to await page.url().catch(...)
loginCatch(l, error) ==
  LET c == [l EXCEPT !.error = error]
  IN  IF c.pageClosed THEN loginFailure(c) ELSE [c EXCEPT !.pc = "finalUrl"]

\* checkTimeout(); then `next`
checkTimeout(l, next) == IF l.timedOut THEN loginCatch(l, "timeout") ELSE next

\* LoginHandler.login from its start up to its first await
loginEnter(l) ==
  IF l.rev.lookups /\ l.credentials = "missing"
  THEN [l EXCEPT !.pc = "done", !.out = "returned", !.success = FALSE,
                 !.error = "credentials",
                 !.message = <<"Login failed: ", "credentials">>]
  ELSE IF l.rev.lookups /\ l.credentials = "none" THEN loginRaise(l, "credentials")
  ELSE IF l.rev.lookups /\ ~l.loginUrl THEN loginRaise(l, "loginUrl")
  ELSE loginIssue([l EXCEPT !.listeners = 2], "navigate")

\* The loop over staySignedInSelectors from its k-th entry on, and the code
\* after it up to the next await
loginPrompts(l, k) ==
  IF k <= l.rev.prompts THEN loginIssue([l EXCEPT !.prompt = k], "clickPrompt")
  ELSE checkTimeout(l, loginIssue(l, "checkFor2FA"))

\* After the 2FA block: checkTimeout() and await page.url()
loginAfter2FA(l) == checkTimeout(l, loginIssue(l, "url"))

\* The await of the step l.pc resolved with `value`: the code up to the next
\* await
loginResolved(l, value) ==
  LET d == loginSettled(l, "ok")
  IN  CASE l.pc = "navigate" ->
             IF d.timedOut THEN loginCatch(d, "timeout")
             ELSE IF d.pageClosed THEN loginCatch(d, "pageClosed")
             ELSE loginIssue(d, "waitForBody")
        [] l.pc = "waitForBody" ->
             loginIssue(d, IF d.rev.detects THEN "detect" ELSE "typeUsername")
        [] l.pc = "detect" -> loginIssue(d, "typeUsername")
        [] l.pc = "typeUsername" ->
             checkTimeout(d, loginIssue(d, IF d.nextButtonSelector
                                           THEN "passwordVisible"
                                           ELSE "waitForPassword"))
        [] l.pc = "passwordVisible" ->
             IF value THEN loginIssue([d EXCEPT !.passwordVisible = TRUE],
                                      "waitForPassword")
             ELSE loginIssue(d, "clickNext")
        [] l.pc = "clickNext" ->
             IF d.timedOut THEN loginIssue([d EXCEPT !.nextButtonClicked = TRUE],
                                           "waitForPassword")
             ELSE [d EXCEPT !.nextButtonClicked = TRUE, !.pc = "sleepNext"]
        [] l.pc = "waitForPassword" -> loginIssue(d, "typePassword")
        [] l.pc = "typePassword" -> checkTimeout(d, loginIssue(d, "clickSubmit"))
        [] l.pc = "clickSubmit" -> checkTimeout(d, [d EXCEPT !.pc = "sleepSubmit"])
        [] l.pc = "clickPrompt" -> [d EXCEPT !.pc = "sleepPrompt"]
        [] l.pc = "checkFor2FA" ->
             IF value /\ d.twoFactorOptions
             THEN loginIssue([d EXCEPT !.requires2FA = TRUE], "handleTwoFactorAuth")
             ELSE loginAfter2FA([d EXCEPT !.requires2FA = value])
        [] l.pc = "handleTwoFactorAuth" -> loginAfter2FA(d)
        [] l.pc = "url" -> loginIssue(d, "title")
        [] l.pc = "title" ->
             IF d.rev.verifies THEN loginIssue(d, "verifyLoginSuccess")
             ELSE loginReturn(d, TRUE, <<"Login successful.">>)
        [] l.pc = "verifyLoginSuccess" ->
             IF verifyLoginSuccess(d.finalPage, value)
             THEN loginReturn(d, TRUE, <<"Login successful.">>)
             ELSE loginReturn(d, FALSE, <<"Login likely failed">>)
        [] OTHER -> d

\* Every rejection taken to the catch block of login
loginRejectedStrict(l) == loginCatch(loginSettled(l, "failed"), l.pc)

\* Every rejection swallowed
loginRejectedLenient(l) ==
  LET d == loginSettled(l, "failed")
  IN  CASE l.pc = "clickPrompt" -> loginPrompts(d, d.prompt + 1)
        [] l.pc \in {"checkFor2FA", "handleTwoFactorAuth"} -> loginAfter2FA(d)
        [] l.pc = "navigate" -> loginIssue(d, "waitForBody")
        [] l.pc = "waitForBody" -> loginIssue(d, "typeUsername")
        [] l.pc = "typeUsername" -> loginIssue(d, "waitForPassword")
        [] l.pc = "typePassword" -> loginIssue(d, "clickSubmit")
        [] l.pc = "clickSubmit" -> [d EXCEPT !.pc = "sleepSubmit"]
        [] OTHER -> loginIssue(d, "waitForPassword")

\* The await of the step l.pc rejected (for checkFor2FA and
\* handleTwoFactorAuth: failed inside and reported it): the catch that encloses
\* the await, up to the next await
loginRejected(l) ==
  LET d == loginSettled(l, "failed")
  IN  CASE l.pc = "detect" -> loginIssue(d, "typeUsername")
        [] l.pc = "passwordVisible" -> loginIssue(d, "clickNext")
        [] l.pc = "clickNext" -> loginIssue(d, "waitForPassword")
        [] l.pc = "clickPrompt" -> loginPrompts(d, d.prompt + 1)
        [] l.pc \in {"checkFor2FA", "handleTwoFactorAuth"} -> loginAfter2FA(d)
        [] l.pc = "verifyLoginSuccess" /\ d.pageClosed ->
             loginReturn(d, FALSE, <<"Login likely failed">>)
        [] OTHER -> loginCatch(d, l.pc)

\* The steps of login that call a primitive and await it
LoginSteps ==
  {"navigate", "waitForBody", "detect", "typeUsername", "passwordVisible",
   "clickNext", "waitForPassword", "typePassword", "clickSubmit", "clickPrompt",
   "checkFor2FA", "handleTwoFactorAuth", "url", "title", "verifyLoginSuccess"}

\* await this.sessionManager.getSession(sessionId) settles; on success
\* loginHandler.login(session, loginParams) is called
LoginGetSession ==
  \E threw \in BOOLEAN :
    /\ login.pc = "getSession"
    /\ login' = IF threw THEN loginRaise(login, "getSession")
                ELSE loginEnter(login)
    /\ UNCHANGED <<mvars, run, page, pcalls, plast, launch, extract>>

\* The step awaited resolves; on a closed page every primitive rejects.  The
\* page is in its final state when its title is read.
LoginStepResolves ==
  \E value \in BOOLEAN, pg \in FinalPages :
    /\ login.pc \in LoginSteps
    /\ ~login.pageClosed
    /\ pg = LoginForm \/ login.pc = "title"
    /\ login' = loginResolved(IF login.pc = "title"
                               THEN [login EXCEPT !.finalPage = pg]
                               ELSE login, value)
    /\ UNCHANGED <<mvars, run, page, pcalls, plast, launch, extract>>

\* The step awaited rejects
LoginStepRejects ==
  /\ login.pc \in LoginSteps
  /\ login' = loginRejected(login)
  /\ UNCHANGED <<mvars, run, page, pcalls, plast, launch, extract>>

\* await setTimeout(...) after the Next click, the submit click or a prompt
LoginSleepEnds ==
  /\ login.pc \in {"sleepNext", "sleepSubmit", "sleepPrompt"}
  /\ login' = CASE login.pc = "sleepNext" -> loginIssue(login, "waitForPassword")
                [] login.pc = "sleepSubmit" -> loginPrompts(login, 1)
                [] OTHER -> checkTimeout(login, loginIssue(login, "checkFor2FA"))
  /\ UNCHANGED <<mvars, run, page, pcalls, plast, launch, extract>>

\* The reads of the final URL and title in the catch block settle (a
\* rejection gives 'N/A')
LoginFinalStateSettles ==
  /\ login.pc \in {"finalUrl", "finalTitle"}
  /\ login' = IF login.pc = "finalUrl" /\ ~login.pageClosed
              THEN [login EXCEPT !.pc = "finalTitle"]
              ELSE loginFailure(login)
  /\ UNCHANGED <<mvars, run, page, pcalls, plast, launch, extract>>

\* MAX_LOGIN_TIME passes since loginStartTime
LoginTimePasses ==
  /\ login.pc \notin {"idle", "done", "getSession"}
  /\ ~login.timedOut
  /\ login' = [login EXCEPT !.timedOut = TRUE]
  /\ UNCHANGED <<mvars, run, page, pcalls, plast, launch, extract>>

\* The page of the session is closed under the login
LoginPageCloses ==
  /\ login.pc \notin {"idle", "done", "getSession"}
  /\ ~login.pageClosed
  /\ login' = [login EXCEPT !.pageClosed = TRUE]
  /\ UNCHANGED <<mvars, run, page, pcalls, plast, launch, extract>>

InitLogin ==
  /\ sessions = {1}
  /\ obj = <<PooledSession>>
  /\ calls = EmptyBag
  /\ pendingDisc = {}
  /\ last = Event("init", 0, "none")
  /\ cleanupInterval = TRUE
  /\ run = NoRun
  /\ page = NoPage /\ pcalls = <<>> /\ plast = NoPlast
  /\ launch = NoLaunch /\ extract = NoExtract
  /\ \E rev \in Revisions, credentials \in {"ok", "missing", "none"},
        loginUrl \in BOOLEAN, nextButtonSelector \in BOOLEAN,
        twoFactorOptions \in BOOLEAN :
       /\ rev.lookups \/ (credentials = "ok" /\ loginUrl)
       /\ login = NewLogin(rev, credentials, loginUrl, nextButtonSelector,
                           twoFactorOptions)

NextLogin ==
  \/ LoginGetSession
  \/ LoginStepResolves
  \/ LoginStepRejects
  \/ LoginSleepEnds
  \/ LoginFinalStateSettles
  \/ LoginTimePasses
  \/ LoginPageCloses

SpecLogin == InitLogin /\ [][NextLogin]_vars

-----------------------------------------------------------------------------
(* Properties of login *)

\* The position of a step in the order of the code
StepOrder ==
  <<"navigate", "waitForBody", "detect", "typeUsername", "passwordVisible",
    "clickNext", "waitForPassword", "typePassword", "clickSubmit", "clickPrompt",
    "checkFor2FA", "handleTwoFactorAuth", "url", "title", "verifyLoginSuccess">>

RankOf == [step \in LoginSteps |-> CHOOSE k \in 1..Len(StepOrder) : StepOrder[k] = step]

Rank(step) == RankOf[step]

\* The steps login cannot do without
MandatorySteps ==
  {"navigate", "waitForBody", "typeUsername", "waitForPassword", "typePassword",
   "clickSubmit"}

\* The steps whose failure login survives
ToleratedSteps ==
  {"clickNext", "clickPrompt", "checkFor2FA", "handleTwoFactorAuth"}

\* C22: login never closes or removes its session: when login has returned
\* success = false, the session is still pooled with its closing flag false
\* and the handles it had, and the result carries a non-empty message.
C22_FailedLoginKeepsSession ==
  (login.out = "returned" /\ ~login.success) =>
    /\ 1 \in sessions
    /\ obj[1] = PooledSession
    /\ ~obj[1].isClosing
    /\ login.message # <<>>

\* A login that failed on a step, one that timed out, or one that was not
\* verified has returned
C22_Witness ==
  /\ login.out = "returned" /\ ~login.success
  /\ login.error = "timeout"
  /\ 1 \in sessions /\ Len(login.issued) >= 4

\* C29: the steps of login are issued in the fixed order, no step is issued
\* before every earlier mandatory step has succeeded, and the Next click is
\* skipped when the password field is already visible.
C29_FixedStepOrder ==
  /\ \A j, k \in 1..Len(login.issued) :
       j < k =>
         \/ Rank(login.issued[j].step) < Rank(login.issued[k].step)
         \/ login.issued[j].step = "clickPrompt" /\ login.issued[k].step = "clickPrompt"
  /\ \A k \in 1..Len(login.issued) :
       \A m \in MandatorySteps :
         Rank(m) < Rank(login.issued[k].step) =>
           \E j \in 1..(k - 1) :
             login.issued[j].step = m /\ login.issued[j].result = "ok"
  /\ login.passwordVisible =>
       \A k \in 1..Len(login.issued) : login.issued[k].step # "clickNext"

\* A login that clicked Next, tried a second prompt, handled 2FA and returned
\* success
C29_Witness ==
  /\ login.out = "returned" /\ login.success
  /\ \E k \in 1..Len(login.issued) : login.issued[k].step = "clickNext"
  /\ \E k \in 1..Len(login.issued) : login.issued[k].step = "handleTwoFactorAuth"
  /\ login.prompt = 2

\* C30: a failure of the Next click, of every prompt selector, of the 2FA
\* check or of the 2FA handling does not abort the login, which goes on to the
\* step after it; a failure of the navigation, of typing the username or the
\* password, of waiting for the password field or of the submit click aborts
\* it: no later step is issued and the result is success = false with that
\* error.
C30_ToleratedAndFatalFailures ==
  /\ login.error \notin ToleratedSteps
  /\ \A k \in 1..Len(login.issued) :
       LET e == login.issued[k]
       IN  /\ (e.result = "failed" /\ e.step \in ToleratedSteps /\ k = Len(login.issued))
                => login.error = "timeout"
           /\ (e.result = "failed" /\ e.step \in MandatorySteps)
                => /\ k = Len(login.issued)
                   /\ login.error = e.step
                   /\ login.pc \in {"finalUrl", "finalTitle", "done"}
                   /\ login.pc = "done" =>
                        /\ login.out = "returned" /\ ~login.success
                        /\ login.message = <<"Login failed: ", e.step>>

\* A login whose Next click failed and that went on to fail on typing the
\* password
C30_Witness ==
  /\ login.out = "returned" /\ login.error = "typePassword"
  /\ \E k \in 1..Len(login.issued) :
       login.issued[k].step = "clickNext" /\ login.issued[k].result = "failed"

-----------------------------------------------------------------------------
(* The disconnect observer *)

\* The session manager under creation, closing, reconnection, inactivity
\* timers and disconnections
NextDisc ==
  \/ CallCreateSession
  \/ StepCreateSession
  \/ CallCloseSession
  \/ StepCloseResources
  \/ StepCloseSession
  \/ CallReconnectSession
  \/ StepReconnectSession
  \/ HandleDisconnection
  \/ SessionTimeout
  \/ Disconnect
  \/ DisconnectLaunched
  \/ TimePasses

\* Every release awaited by closeResources settles and every closeSession
\* call is resumed once its teardown is over
SpecDisc ==
  Init /\ [][NextDisc]_vars
       /\ WF_vars(StepCloseResources) /\ WF_vars(StepCloseSession)

\* handleDisconnection has just started the forced close of session i
ForcedClose(i) ==
  last.fn = "handleDisconnection" /\ last.out = "close" /\ last.sid = i

\* C24: a disconnect notification for a pooled session that is not closing
\* starts its forced close, after which the session is eventually removed from
\* the pool; a notification for a session that is absent or already closing
\* changes nothing.
C24_DisconnectCloses ==
  /\ [][last'.fn = "handleDisconnection" =>
          IF last'.sid \in sessions /\ ~obj[last'.sid].isClosing
          THEN /\ last'.out = "close"
               /\ obj'[last'.sid].isClosing
               /\ \E st \in BagToSet(calls') :
                    st[1].fn = "closeSession" /\ st[1].sid = last'.sid
                      /\ ~st[1].graceful
          ELSE /\ last'.out = "noop"
               /\ obj' = obj /\ sessions' = sessions /\ calls' = calls]_vars
  /\ \A i \in Ids : ForcedClose(i) ~> (i \notin sessions)

\* A notification has started the forced close of a pooled session, which is
\* now closing with its closeSession call in flight
C24_Witness ==
  \E i \in sessions :
    /\ ForcedClose(i)
    /\ obj[i].isClosing
    /\ \E st \in BagToSet(calls) :
         st[1].fn = "closeSession" /\ st[1].sid = i /\ ~st[1].graceful

-----------------------------------------------------------------------------
(* BrowserService.executeActions: request interception and the connection  *)
(* check.  The body of an action is one await here; its dispatch is in     *)
(* SpecExec.                                                               *)

interceptionHandler == "h1"

\* executeActions(sessionId, actions, {stopOnError, blockMedia}) as it is
\* invoked: the fields of NewRun and `blockMedia`, `interceptionEnabled`,
\* `connected` (session.browser.isConnected()), `held` (the page and client
\* the local variables refer to: those of getSession or those of a
\* reconnect), `launchable` (whether a browser could be launched when the
\* latest reconnect was attempted) and `dispatched` (the actions whose
\* primitive was called).
NewPageRun(n, stopOnError, blockMedia) ==
  [blockMedia |-> blockMedia, interceptionEnabled |-> FALSE, connected |-> TRUE,
   held |-> "first", launchable |-> FALSE, reconnects |-> 0, dispatched |-> <<>>]
    @@ NewRun(n, stopOnError)

\* throw inside the try block: the outer catch block up to its reads of the
\* page state
execCaught(r, why) == [execRaise(r, why) EXCEPT !.pc = "caught"]

\* The finally block run only after a return
execFinallyOnReturn(r, p) ==
  IF r.interceptionEnabled /\ ~p.closed /\ r.outcome = "returned"
  THEN [run |-> [r EXCEPT !.pc = "disable"], page |-> disableDetach(p)]
  ELSE [run |-> [r EXCEPT !.pc = "done"], page |-> p]

\* The finally block up to await page.setRequestInterception(false), or to
\* its end
execFinally(r, p) ==
  IF r.interceptionEnabled /\ ~p.closed
  THEN [run |-> [r EXCEPT !.pc = "disable"], page |-> disableDetach(p)]
  ELSE [run |-> [r EXCEPT !.pc = "done"], page |-> p]

\* The code after getSession up to the first await
execStart(r, p) ==
  IF ~r.blockMedia THEN [r EXCEPT !.pc = "loop"]
  ELSE IF p.closed THEN [r EXCEPT !.pc = "loop", !.interceptionEnabled = TRUE]
  ELSE [r EXCEPT !.pc = "enable"]

\* The call of the primitive of action i
execCallAction(r) ==
  [r EXCEPT !.pc = "inflight",
            !.dispatched = Append(r.dispatched, [index |-> r.i, held |-> r.held])]

\* The head of an iteration up to its first await
execHead(r) ==
  IF r.i >= r.n THEN [r EXCEPT !.pc = "final"]
  ELSE IF budgetExceeded(r) THEN execCaught(r, "budget")
  ELSE IF ~r.connected
  THEN [r EXCEPT !.pc = "reconnect", !.reconnects = r.reconnects + 1]
  ELSE execCallAction(r)

\* After await reconnectSession: the test of the refreshed session, the
\* rebinding of page and client and the re-enabling of interception, up to
\* the next await
execReconnected(r, ok) ==
  IF ~ok THEN execCaught(r, "disconnected")
  ELSE LET q == [r EXCEPT !.connected = TRUE, !.held = "new"]
       IN  IF q.interceptionEnabled THEN [q EXCEPT !.pc = "reenable"]
           ELSE execCallAction(q)

\* await this.sessionManager.getSession(sessionId) settles
ExecPageGetSession ==
  \E res \in {"ok", "throws"} :
    /\ run.pc = "getSession"
    /\ run' = IF res = "ok" THEN execStart(run, page)
              ELSE [execRaise(run, "getSessionError") EXCEPT !.pc = "done"]
    /\ UNCHANGED <<mvars, page, pcalls, plast, login, launch, extract>>

\* await enableRequestInterception(page, interceptionHandler) settles, before
\* the loop or after a reconnect
ExecPageEnableSettles ==
  \E threw \in BOOLEAN :
    /\ run.pc \in {"enable", "reenable"}
    /\ (page.closed \/ ~run.connected) => threw
    /\ page' = IF threw THEN page ELSE enableAttach(page, interceptionHandler)
    /\ run' = IF threw THEN execCaught(run, "interceptionError")
              ELSE IF run.pc = "enable"
              THEN [run EXCEPT !.pc = "loop", !.interceptionEnabled = TRUE]
              ELSE execCallAction(run)
    /\ UNCHANGED <<mvars, pcalls, plast, login, launch, extract>>

\* The head of an iteration: the budget check and the connection check
ExecPageLoop ==
  /\ run.pc = "loop"
  /\ run' = execHead(run)
  /\ UNCHANGED <<mvars, page, pcalls, plast, login, launch, extract>>

\* await this.sessionManager.reconnectSession(sessionId) settles.  The
\* teardown of the stale handles may have closed the page held; an attempt
\* goes through only if the launcher can launch and the launch works.
ExecPageReconnectSettles ==
  \E launchable \in BOOLEAN : \E closed \in BOOLEAN :
    LET ok == launcherHasLaunch /\ launchable
    IN  /\ run.pc = "reconnect"
        /\ run' = execReconnected([run EXCEPT !.launchable = launchable], ok)
        /\ page' = IF ok THEN OpenPage(AboutBlank)
                   ELSE [page EXCEPT !.closed = page.closed \/ closed]
        /\ UNCHANGED <<mvars, pcalls, plast, login, launch, extract>>

\* The primitive of the action settles
ExecPageActionSettles ==
  \E threw \in BOOLEAN :
    /\ run.pc = "inflight"
    /\ run' = IF threw THEN execFail(run) ELSE execSucceed(run)
    /\ UNCHANGED <<mvars, page, pcalls, plast, login, launch, extract>>

\* The reads of the final URL and title settle, after the loop or in the
\* outer catch block; the finally block starts
ExecPageFinalState ==
  /\ run.pc \in {"final", "caught"}
  /\ LET r == IF run.pc = "final" THEN [run EXCEPT !.outcome = "returned"] ELSE run
         e == execFinally(r, page)
     IN  run' = e.run /\ page' = e.page
  /\ UNCHANGED <<mvars, pcalls, plast, login, launch, extract>>

\* await page.setRequestInterception(false) settles (an error is swallowed):
\* it fails when the page or the connection to its browser is gone
ExecPageDisableSettles ==
  /\ run.pc = "disable"
  /\ page' = IF page.closed \/ ~run.connected THEN page
             ELSE [page EXCEPT !.interception = FALSE]
  /\ run' = [run EXCEPT !.pc = "done"]
  /\ UNCHANGED <<mvars, pcalls, plast, login, launch, extract>>

\* The browser of the session disconnects
ExecPageDisconnect ==
  /\ run.pc \notin {"idle", "done", "getSession"}
  /\ run.connected
  /\ run' = [run EXCEPT !.connected = FALSE]
  /\ UNCHANGED <<mvars, page, pcalls, plast, login, launch, extract>>

\* The page held is closed
ExecPagePageCloses ==
  /\ run.pc \notin {"idle", "done"}
  /\ ~page.closed
  /\ page' = [page EXCEPT !.closed = TRUE]
  /\ UNCHANGED <<mvars, run, pcalls, plast, login, launch, extract>>

\* The time since the start of the call passes overallTimeout
ExecPageBudgetRunsOut ==
  /\ run.pc \notin {"idle", "done", "getSession"}
  /\ ~run.over
  /\ run' = [run EXCEPT !.over = TRUE]
  /\ UNCHANGED <<mvars, page, pcalls, plast, login, launch, extract>>

InitExecPage ==
  /\ ManagerInit
  /\ page = OpenPage(AboutBlank) /\ pcalls = <<>> /\ plast = NoPlast
  /\ login = NoLogin /\ launch = NoLaunch /\ extract = NoExtract
  /\ run \in {NewPageRun(n, stopOnError, blockMedia) :
                n \in 0..MaxActions, stopOnError \in BOOLEAN, blockMedia \in BOOLEAN}

NextExecPage ==
  \/ ExecPageGetSession
  \/ ExecPageEnableSettles
  \/ ExecPageLoop
  \/ ExecPageReconnectSettles
  \/ ExecPageActionSettles
  \/ ExecPageFinalState
  \/ ExecPageDisableSettles
  \/ ExecPageDisconnect
  \/ ExecPagePageCloses
  \/ ExecPageBudgetRunsOut

SpecExecPage == InitExecPage /\ [][NextExecPage]_vars

-----------------------------------------------------------------------------
(* Properties of SpecExecPage *)

C25_ReconnectRebinds ==
  [][ /\ (run.pc = "loop" /\ run.i < run.n /\ ~run.over /\ ~run.connected)
           => run'.pc = "reconnect"
      /\ (run.pc = "reconnect" /\ run'.launchable)
           => /\ run'.held = "new" /\ run'.connected
              /\ run'.pc = IF run.interceptionEnabled THEN "reenable" ELSE "inflight"
              /\ run'.outcome = "none"
      /\ (run.pc = "reconnect" /\ ~run'.launchable)
           => /\ run'.pc = "caught" /\ run'.outcome = "disconnected"
              /\ run'.dispatched = run.dispatched
      /\ (run.reconnects > 0 /\ run.outcome = "disconnected")
           => run'.dispatched = run.dispatched
    ]_vars

-----------------------------------------------------------------------------
(* Properties of the action loop (SpecExec), continued *)

\* The types the switch of executeActions has a case for
RecognizedTypes == ActionTypes \ {"unsupported"}

\* C33: an action of an unrecognized type is never dispatched to a primitive
\* and never yields a successful result: the step that takes it from the list
\* records failed results for it and nothing else, and under stopOnError it
\* records exactly one and ends the loop.
C33_UnsupportedTypeFails ==
  /\ [](run.pc = "inflight" =>
          run.action.type \in RecognizedTypes /\ run.call.prim = run.action.type)
  /\ [][ (run.pc = "loop" /\ run'.tried = "unsupported") =>
           /\ run'.pc # "inflight" /\ run'.call = NoCall
           /\ Len(run'.results) > Len(run.results)
           /\ \A k \in (Len(run.results) + 1)..Len(run'.results) :
                run'.results[k] = actionResult(run, FALSE)
           /\ run.stopOnError =>
                (run'.pc = "final" /\ Len(run'.results) = Len(run.results) + 1)
       ]_vars
  /\ [][ (Len(run'.results) > Len(run.results)
            /\ run'.results[Len(run'.results)].success) =>
           (run.pc = "inflight" /\ run.action.type \in RecognizedTypes) ]_vars

\* A run under stopOnError whose second action was of an unsupported type has
\* just left the loop with one success and one failure
C33_Witness ==
  /\ run.tried = "unsupported" /\ run.stopOnError /\ run.pc = "final"
  /\ run.n = 3
  /\ run.results = <<[index |-> 0, success |-> TRUE], [index |-> 1, success |-> FALSE]>>

\* C37: completedWithError of the object returned is true exactly when one of
\* the results returned has success = false, under either stopOnError setting.
C37_CompletedWithError ==
  (run.pc = "done" /\ run.outcome = "returned") =>
     (completedWithError(run) <=>
        \E k \in 1..Len(run.results) : ~run.results[k].success)

-----------------------------------------------------------------------------
(* SessionManager.getAllSessionsInfo *)

\* The first key of `todo` in the order of the Map (the order of creation)
firstKey(todo) == CHOOSE i \in todo : \A j \in todo : i <= j

RECURSIVE listLoop(_, _, _, _)
\* The loop over sessionIds from the keys left in `todo`, up to
\* await this.getSession(sessionId) or to the end of the list
listLoop(o, S, P, todo) ==
  IF todo = {} THEN Effect(o, S, P, <<>>, "listed")
  ELSE LET i == firstKey(todo)
       IN  IF i \notin S \/ o[i].isClosing THEN listLoop(o, S, P, todo \ {i})
           ELSE Awaiting([Frame("getAllSessionsInfo", "getSession", i)
                            EXCEPT !.todo = todo \ {i}],
                         getSessionStart(o, S, P, i))

\* await this.closeSession(sessionId, false) of the loop body
listClose(f) ==
  Awaiting([f EXCEPT !.pc = "close", !.ret = "none"],
           closeSessionStart(obj, sessions, pendingDisc, f.sid, FALSE))

\* getAllSessionsInfo resumes: after getSession, after the read of the URL or
\* of the title (`res`), or after closeSession
listResume(f, res) ==
  CASE f.pc = "getSession" ->
         IF f.ret # "ok" THEN listLoop(obj, sessions, pendingDisc, f.todo)
         ELSE IF obj[f.sid].page = "open"
         THEN Effect(obj, sessions, pendingDisc,
                     <<[f EXCEPT !.pc = "url", !.ret = "none"]>>, "none")
         ELSE listClose(f)
    [] f.pc = "url" ->
         IF res = "ok"
         THEN Effect(obj, sessions, pendingDisc, <<[f EXCEPT !.pc = "title"]>>, "none")
         ELSE listClose(f)
    [] f.pc = "title" ->
         IF res = "ok" THEN listLoop(obj, sessions, pendingDisc, f.todo)
         ELSE listClose(f)
    [] f.pc = "close" -> listLoop(obj, sessions, pendingDisc, f.todo)

CallGetAllSessionsInfo ==
  /\ InFlight < MaxCalls
  /\ LET e == listLoop(obj, sessions, pendingDisc, sessions)
     IN Commit(<<>>, e, [CallEvent("getAllSessionsInfo", 0, e.out)
                           EXCEPT !.ids = sessions])

StepGetAllSessionsInfo ==
  \E st \in BagToSet(calls) : \E res \in {"ok", "throws"} :
    /\ TopIs(st, "getAllSessionsInfo")
    /\ LET e == listResume(Top(st), res)
       IN Commit(st, e, Event("getAllSessionsInfo", Top(st).sid,
                              IF e.out = "none" THEN "step" ELSE e.out))

\* The session manager under creation, listing, inactivity timers and
\* disconnections (the disconnect observer left aside)
NextList ==
  \/ CallCreateSession
  \/ StepCreateSession
  \/ CallGetAllSessionsInfo
  \/ StepGetAllSessionsInfo
  \/ StepGetSession
  \/ StepReconnectSession
  \/ StepCloseResources
  \/ StepCloseSession
  \/ SessionTimeout
  \/ Disconnect
  \/ TimePasses

SpecList == Init /\ [][NextList]_vars

\* C38: a step of getAllSessionsInfo leaves every pooled session pooled, with
\* its last-used time, its inactivity timer and its closing flag as they were.
C38_ListingReadOnly ==
  [][ last'.fn = "getAllSessionsInfo" =>
        \A i \in sessions :
          /\ i \in sessions'
          /\ obj'[i].expired = obj[i].expired
          /\ obj'[i].timeoutId = obj[i].timeoutId
          /\ obj'[i].timerOld = obj[i].timerOld
          /\ obj'[i].isClosing = obj[i].isClosing ]_vars

-----------------------------------------------------------------------------
(* Reclaiming the slot of a closing session *)

\* The manager of SpecDisc with every call in flight resumed, every
\* notification delivered and every expired timer fired
SpecSettle ==
  Init /\ [][NextDisc]_vars
       /\ WF_vars(StepCreateSession) /\ WF_vars(StepCloseResources)
       /\ WF_vars(StepCloseSession) /\ WF_vars(StepReconnectSession)
       /\ WF_vars(HandleDisconnection) /\ WF_vars(SessionTimeout)

\* C34: a pooled session whose closing flag is set is eventually out of the
\* pool or has its flag cleared.
C34_ClosingSlotReclaimed ==
  \A i \in Ids :
    (i \in sessions /\ obj[i].isClosing) ~> (i \notin sessions \/ ~obj[i].isClosing)

\* C35: after closeSession(i) was called on a pooled session, also while a
\* reconnect attempt for i is in flight, i is eventually out of the pool (and
\* so no longer returned by getSession).
C35_CloseNeverLost ==
  \A i \in Ids :
    (last.fn = "closeSession" /\ last.top /\ last.sid = i /\ i \in sessions)
      ~> (i \notin sessions)

-----------------------------------------------------------------------------
(* Properties of the session manager (Spec), continued *)

\* The frames of reconnectSession(i) in flight: a stack and a position in it
ReconnectFrames(i) ==
  UNION { { <<st, k>> : k \in { n \in 1..Len(st) :
                                  /\ st[n].fn = "reconnectSession"
                                  /\ st[n].sid = i } } : st \in BagToSet(calls) }

ReconnectInFlight(i) == ReconnectFrames(i) # {}

\* C36: at most one reconnectSession(i) is in flight, and while it is, a
\* reconnectSession(i) or getSession(i) of another caller fails at once and
\* leaves the sessions, the pool and the calls in flight as they were.
C36_SingleReconnect ==
  /\ [](\A i \in Ids :
          /\ Cardinality(ReconnectFrames(i)) <= 1
          /\ \A sk \in ReconnectFrames(i) : CopiesIn(sk[1], calls) = 1)
  /\ [][ \A i \in Ids :
          ( /\ ReconnectInFlight(i)
            /\ last'.top /\ last'.sid = i
            /\ last'.fn \in {"reconnectSession", "getSession"}
            /\ last' # last )
          => /\ last'.out \in {"refused", "notFound"}
             /\ obj' = obj /\ sessions' = sessions /\ calls' = calls ]_vars

C36_Witness ==
  /\ last.top /\ last.fn = "reconnectSession" /\ last.out = "refused"
  /\ last.sid \in sessions
  /\ ReconnectInFlight(last.sid)

\* C39: once shutdown has returned the pool is empty and no session object
\* holds a connected browser.
C39_ShutdownLeavesNothing ==
  Exited => /\ sessions = {}
            /\ \A i \in Objs : ~isConnected(obj[i])

\* C40: a session has at most one inactivity timer armed, and none when it is
\* out of the pool or closing.
C40_OneTimer ==
  \A i \in Objs :
    /\ obj[i].timers <= 1
    /\ (i \notin sessions \/ obj[i].isClosing) => obj[i].timers = 0

-----------------------------------------------------------------------------
(* Properties of login (SpecLogin), continued *)

\* The steps that interact with the page under the budget of the login (the
\* reads of the URL and the title for the result are left out)
BudgetedSteps == LoginSteps \ {"url", "title"}

\* C31: once more than MAX_LOGIN_TIME has passed since the login started, no
\* further step is started.
C31_NoStepAfterBudget ==
  [][ (login.timedOut /\ Len(login'.issued) > Len(login.issued))
      => login'.issued[Len(login'.issued)].step \notin BudgetedSteps ]_vars

\* C32: login returns success only when the page shows no error marker and at
\* least one positive signal.
C32_SuccessVerified ==
  (login.out = "returned" /\ login.success)
    => /\ ~login.finalPage.hasLoginError
       /\ \/ login.finalPage.urlIsDifferentAndNotAuth
          \/ login.finalPage.passwordFieldGone
          \/ login.finalPage.hasSuccessIndicator

====
